---- MODULE Spec2Model ----
(***************************************************************************)
(* Calendar availability and scheduling engine of the self-care toolkit    *)
(* backend (backend/calendar_service.py, backend/actions.py), the          *)
(* suggestions built on it (backend/agent_suggestions.py, backend/main.py) *)
(* and the calendar tool of the MCP server (mcp-server/selfcare_mcp.py).   *)
(*                                                                         *)
(* Time.  An instant is an integer: seconds since 00:00 UTC of day 0.  A   *)
(* wall-clock reading is the instant plus the zone's UTC offset.  Every    *)
(* zone keeps one UTC offset over the modelled days: no daylight-saving    *)
(* transition falls inside the horizon, so comparing two datetimes of the  *)
(* same zone (which Python does on the wall clock) and comparing their     *)
(* instants agree.  Sub-second parts are not modelled: replace(second=0,   *)
(* microsecond=0) is truncation to the minute.                             *)
(***************************************************************************)
EXTENDS Integers, Sequences, FiniteSets, TLC

VARIABLES
    calendar,   \* the primary Google calendar: events ordered by start time
    now,        \* the clock the handlers read with datetime.now(tz)
    TZ,         \* the TZ environment variable of the server ("" when unset)
    CALENDAR_AVAILABLE,  \* module flag set at import
    call,       \* the direct call being served: operation and arguments
    out,        \* what the direct call returned
    req         \* the create_calendar_block requests, by request id

vars == <<calendar, now, TZ, CALENDAR_AVAILABLE, call, out, req>>

(***************************************************************************)
(* Bounds of the model.                                                    *)
(***************************************************************************)
\* grid points 09:00, 09:30, ... of day 0 on which busy events and windows lie
MaxGrid == 6
\* most events on the calendar at the start
MaxEvents == 2

(***************************************************************************)
(* datetime, timedelta, ZoneInfo                                           *)
(***************************************************************************)
Minutes(n) == n * 60
Hours(n) == n * 3600
Days(n) == n * 86400

Max(a, b) == IF a >= b THEN a ELSE b

Pacific == "America/Los_Angeles"
Eastern == "America/New_York"

\* utcoffset of a zone, in seconds (standard time)
UtcOffset(tz) ==
    CASE tz = Pacific -> 0 - Hours(8)
      [] tz = Eastern -> 0 - Hours(5)
      [] OTHER -> 0

\* dt.astimezone(tz): the wall-clock reading of instant t in zone tz
Wall(t, tz) == t + UtcOffset(tz)
\* naive.replace(tzinfo=tz): the instant of wall-clock reading w in zone tz
Instant(w, tz) == w - UtcOffset(tz)

\* w.replace(hour=h, minute=m, second=0, microsecond=0) on a wall-clock reading
ReplaceHM(w, h, m) == (w - (w % 86400)) + Hours(h) + Minutes(m)
\* w.replace(second=0, microsecond=0)
TruncMinute(w) == w - (w % 60)

(***************************************************************************)
(* Calendar events as the Google API returns them: start and end are       *)
(* either {'dateTime': instant} (timed) or {'date': day} (all-day).        *)
(***************************************************************************)
DateTime(t) == [kind |-> "dateTime", v |-> t]
Date(d) == [kind |-> "date", v |-> d]

\* get_free_slots' reading of an event time: a 'date' has no 'T' and is parsed
\* as midnight of that day in now.tzinfo, which is Pacific
ParseEventTime(x) ==
    IF x.kind = "dateTime" THEN x.v ELSE Instant(Days(x.v), Pacific)

\* service.events().list(timeMin, timeMax, singleEvents, orderBy='startTime'):
\* the events that end after timeMin and start before timeMax, by start time
EventsList(cal, timeMin, timeMax) ==
    SelectSeq(cal, LAMBDA e : ParseEventTime(e.end) > timeMin
                              /\ ParseEventTime(e.start) < timeMax)

(***************************************************************************)
(* get_free_slots                                                          *)
(***************************************************************************)
\* lines 81-86: an explicit window start in the past is replaced by now
ClampStart(start_dt, now_) == IF start_dt < now_ THEN now_ ELSE start_dt

\* lines 144-153: the cursor starts at the window start, or at now when the
\* window start is in the past
InitialCursor(start_dt, now_pacific) ==
    IF start_dt < now_pacific THEN now_pacific ELSE start_dt

\* the gap before an event kept whatever its length
GapBefore_NoMinimum(current_time, event_start, duration_minutes, now_pacific) ==
    IF current_time < event_start /\ event_start > now_pacific
    THEN << [start |-> Max(current_time, now_pacific),
             end |-> event_start,
             duration_minutes |-> (event_start - current_time) \div 60] >>
    ELSE << >>

\* lines 185-196: the gap before an event, if it is long enough
GapBefore(current_time, event_start, duration_minutes, now_pacific) ==
    IF current_time < event_start /\ event_start > now_pacific
       /\ (event_start - current_time) >= Minutes(duration_minutes)
    THEN << [start |-> Max(current_time, now_pacific),
             end |-> event_start,
             duration_minutes |-> (event_start - current_time) \div 60] >>
    ELSE << >>

\* the cursor set to the end of the event even when that moves it back
AdvanceCursor_Always(current_time, event_end) == event_end

\* lines 198-200: the cursor moves to the end of the event
AdvanceCursor(current_time, event_end) ==
    IF event_end > current_time THEN event_end ELSE current_time

\* lines 155-200: the loop over the events
RECURSIVE SweepEvents(_, _, _, _, _, _)
SweepEvents(events, i, current_time, free_slots, duration_minutes, now_pacific) ==
    IF i > Len(events)
    THEN [current_time |-> current_time, free_slots |-> free_slots]
    ELSE LET event_start == ParseEventTime(events[i].start)
             event_end == ParseEventTime(events[i].end)
         IN SweepEvents(events, i + 1,
                        AdvanceCursor(current_time, event_end),
                        free_slots \o GapBefore(current_time, event_start,
                                                duration_minutes, now_pacific),
                        duration_minutes, now_pacific)

\* lines 208-220: the free time after the last event
TrailingGap(current_time, end_dt, duration_minutes, now_pacific) ==
    IF current_time < end_dt
       /\ (end_dt - current_time) >= Minutes(duration_minutes)
       /\ Max(current_time, now_pacific) < end_dt
    THEN << [start |-> Max(current_time, now_pacific),
             end |-> end_dt,
             duration_minutes |-> (end_dt - current_time) \div 60] >>
    ELSE << >>

\* lines 222-243: only the slots that start after now are returned
FutureSlots(free_slots, now_pacific) ==
    SelectSeq(free_slots, LAMBDA slot : slot.start > now_pacific)

\* lines 132-243: the slots computed from the fetched events
ComputeFreeSlots(events, start_dt, end_dt, duration_minutes, now_pacific) ==
    LET swept == SweepEvents(events, 1, InitialCursor(start_dt, now_pacific),
                             << >>, duration_minutes, now_pacific)
    IN FutureSlots(swept.free_slots
                   \o TrailingGap(swept.current_time, end_dt,
                                  duration_minutes, now_pacific),
                   now_pacific)

\* lines 74-95: start_date is "today", "tomorrow" or an ISO date-time
ParseStartDate(start_date, now_) ==
    CASE start_date.kind = "today" ->
            Instant(ReplaceHM(Wall(now_, Pacific), 0, 0), Pacific)
      [] start_date.kind = "tomorrow" ->
            Instant(ReplaceHM(Wall(now_, Pacific) + Days(1), 0, 0), Pacific)
      [] OTHER -> ClampStart(start_date.v, now_)

\* lines 97-119: end_date is "today", "tomorrow", "<n> days" or an ISO date-time
ParseEndDate(end_date, now_) ==
    CASE end_date.kind = "today" ->
            Instant(ReplaceHM(Wall(now_, Pacific), 23, 59) + 59, Pacific)
      [] end_date.kind = "tomorrow" ->
            Instant(ReplaceHM(Wall(now_, Pacific) + Days(1), 23, 59) + 59, Pacific)
      [] end_date.kind = "days" ->
            Instant(ReplaceHM(Wall(now_, Pacific) + Days(end_date.v), 23, 59) + 59,
                    Pacific)
      [] OTHER -> end_date.v

\* lines 58-243: get_free_slots, the fetch of the events succeeding
get_free_slots(cal, start_date, end_date, duration_minutes, now_) ==
    LET start_dt == ParseStartDate(start_date, now_)
        end_dt == ParseEndDate(end_date, now_)
    IN ComputeFreeSlots(EventsList(cal, start_dt, end_dt),
                        start_dt, end_dt, duration_minutes, now_)

(***************************************************************************)
(* check_time_conflict                                                     *)
(***************************************************************************)
NoConflict == [raised |-> FALSE, has_conflict |-> FALSE, conflict_msg |-> "None"]

\* strftime('%I:%M %p') of an instant read in Pacific: the minute of the day
ClockTime(t) == (Wall(t, Pacific) % 86400) \div 60

\* lines 349-351: the message names the event and its local start and end
ConflictMsg(event) ==
    [event |-> event.summary,
     from |-> ClockTime(ParseEventTime(event.start)),
     to |-> ClockTime(ParseEventTime(event.end))]

\* no event is skipped: an all-day event is compared like a timed one
SkipEvent_Never(event) == FALSE

\* lines 293-302: all-day events (no 'dateTime') are skipped
SkipEvent(event) ==
    event.start.kind # "dateTime" \/ event.end.kind # "dateTime"

\* the overlap test with the endpoints included
CandidateOverlaps_Inclusive(start_dt, end_dt, event_start, event_end) ==
    start_dt <= event_end /\ end_dt >= event_start

\* line 348: our event overlaps if start_dt < event_end and end_dt > event_start
CandidateOverlaps(start_dt, end_dt, event_start, event_end) ==
    start_dt < event_end /\ end_dt > event_start

\* lines 293-362: the first event of the list that overlaps the candidate
RECURSIVE FirstConflict(_, _, _, _)
FirstConflict(events, i, start_dt, end_dt) ==
    IF i > Len(events) THEN NoConflict
    ELSE IF SkipEvent(events[i]) THEN FirstConflict(events, i + 1, start_dt, end_dt)
    ELSE IF CandidateOverlaps(start_dt, end_dt,
                              ParseEventTime(events[i].start),
                              ParseEventTime(events[i].end))
         THEN [raised |-> FALSE, has_conflict |-> TRUE,
               conflict_msg |-> ConflictMsg(events[i])]
         ELSE FirstConflict(events, i + 1, start_dt, end_dt)

\* only the events that begin before the start of the candidate are fetched
ConflictQuery_BeforeStart(cal, start_dt, end_dt) ==
    EventsList(cal, start_dt - Hours(1), start_dt)

\* lines 271-289: the events from one hour before the start to one hour after
\* the end
ConflictQuery(cal, start_dt, end_dt) ==
    EventsList(cal, start_dt - Hours(1), end_dt + Hours(1))

\* the failure of the fetch passed on to the caller
OnFetchFailure_Raise == [raised |-> TRUE, has_conflict |-> FALSE, conflict_msg |-> "None"]

\* lines 364-367: a failure inside the check is logged and reported as no conflict
OnFetchFailure == NoConflict

\* lines 250-367: check_time_conflict; fetched says whether the calendar
\* service and the events().list call succeed
check_time_conflict(available, fetched, cal, start_dt, end_dt) ==
    IF ~ available THEN NoConflict
    ELSE IF ~ fetched THEN OnFetchFailure
    ELSE FirstConflict(ConflictQuery(cal, start_dt, end_dt), 1, start_dt, end_dt)

(***************************************************************************)
(* create_calendar_event: the start time                                   *)
(***************************************************************************)
\* lines 396-428 (the branch for Unix): the server's zone is TZ when set,
\* Pacific otherwise
LocalTz(tz_env) == IF tz_env = "" THEN Pacific ELSE tz_env

\* w.replace(minute=m) on a wall-clock reading
ReplaceMinute(w, m) == (w - (((w % 3600) \div 60) * 60)) + Minutes(m)

\* lines 445-456: "now" is the next 5-minute mark
ResolveNow(w) ==
    LET start_dt == TruncMinute(w)
        minutes == (start_dt % 3600) \div 60
        rounded_minutes == ((minutes \div 5) + 1) * 5
        rounded == IF rounded_minutes >= 60
                   THEN ReplaceMinute(start_dt + Hours(1), 0)
                   ELSE ReplaceMinute(start_dt, rounded_minutes)
    IN IF rounded <= w THEN TruncMinute(w + Minutes(5)) ELSE rounded

\* a daily keyword that stays on the current day
ResolveDaily_NoRoll(w, hour) == ReplaceHM(w, hour, 0)

\* lines 463-474: today_morning, today_afternoon, today_evening: the hour
\* today, or tomorrow when it is not after now
ResolveDaily(w, hour) ==
    IF ReplaceHM(w, hour, 0) <= w
    THEN ReplaceHM(w + Days(1), hour, 0)
    ELSE ReplaceHM(w, hour, 0)

Keywords ==
    {"now", "in_1_hour", "in_2_hours", "today_morning", "today_afternoon",
     "today_evening", "tomorrow_morning", "tomorrow_afternoon"}

\* lines 445-478: the keywords, on the wall clock w of the server's zone
ResolveKeyword(name, w) ==
    CASE name = "now" -> ResolveNow(w)
      [] name = "in_1_hour" -> TruncMinute(w + Hours(1))
      [] name = "in_2_hours" -> TruncMinute(w + Hours(2))
      [] name = "today_morning" -> ResolveDaily(w, 9)
      [] name = "today_afternoon" -> ResolveDaily(w, 14)
      [] name = "today_evening" -> ResolveDaily(w, 19)
      [] name = "tomorrow_morning" -> ReplaceHM(w + Days(1), 9, 0)
      [] name = "tomorrow_afternoon" -> ReplaceHM(w + Days(1), 14, 0)

\* a date-time before now left where it is
ResolveExplicit_NoRoll(spec, now_, local_tz) ==
    Instant(TruncMinute(spec.wall),
            IF spec.zone # "" THEN spec.zone ELSE local_tz)

\* lines 484-549: a date-time YYYY-MM-DDTHH:MM with an optional offset and an
\* optional |zone: the regular expression matches at the start of the text
\* and keeps the date-time to the minute, so the seconds, the offset and
\* whatever follows are dropped; the zone is the |zone when given and the
\* server's zone otherwise; a time before now is moved one day on
ResolveExplicit(spec, now_, local_tz) ==
    LET tz == IF spec.zone # "" THEN spec.zone ELSE local_tz
        start_dt == Instant(TruncMinute(spec.wall), tz)
    IN IF start_dt < now_ THEN start_dt + Days(1) ELSE start_dt

\* the start as resolved, without the final check
FinalSafetyCheck_Skipped(start_dt, now_) == start_dt

\* lines 553-561: a start that is not after now becomes now + 5 minutes
FinalSafetyCheck(start_dt, now_) ==
    IF start_dt <= now_ THEN TruncMinute(now_ + Minutes(5)) ELSE start_dt

\* lines 444-561: the start of the event; None raises TypeError at line 484
\* and a text that is no keyword and no date-time raises ValueError, both
\* caught at line 619
ResolveStart(start_time, now_, tz_env) ==
    CASE start_time.kind = "keyword" ->
            [ok |-> TRUE,
             start_dt |-> FinalSafetyCheck(
                 Instant(ResolveKeyword(start_time.name,
                                        Wall(now_, LocalTz(tz_env))),
                         LocalTz(tz_env)), now_)]
      [] start_time.kind = "datetime" ->
            [ok |-> TRUE,
             start_dt |-> FinalSafetyCheck(
                 ResolveExplicit(start_time, now_, LocalTz(tz_env)), now_)]
      [] start_time.kind = "none" -> [ok |-> FALSE, error |-> "TypeError"]
      [] OTHER -> [ok |-> FALSE, error |-> "ValueError"]

(***************************************************************************)
(* execute_action -> _execute_calendar_block -> create_calendar_event      *)
(***************************************************************************)
\* only the lower bound of the duration is enforced
ValidParams_NoUpperBound(params) ==
    params.duration_minutes >= 5 /\ params.purpose # "missing"

\* actions.py lines 14-19: duration_minutes in 5..240 and a purpose are
\* required; time_window is optional
ValidParams(params) ==
    /\ params.duration_minutes >= 5 /\ params.duration_minutes <= 240
    /\ params.purpose # "missing"

\* actions.py lines 94-95
InvalidParameters ==
    [success |-> FALSE, conflict |-> FALSE, message |-> "Invalid calendar block parameters"]

\* calendar_service.py line 390 or 619-621, then actions.py lines 118-121
Failed(error) ==
    [success |-> FALSE, conflict |-> FALSE,
     message |-> <<"Failed to create calendar event", error>>]

\* calendar_service.py lines 577-581, then actions.py lines 110-117
Rejected(conflict_msg) ==
    [success |-> FALSE, conflict |-> TRUE, message |-> conflict_msg]

\* calendar_service.py lines 612-617, then actions.py lines 122-139
Created(event) ==
    [success |-> TRUE, conflict |-> FALSE, message |-> "created",
     data |-> [event_id |-> event.id, start_time |-> event.start.v,
               end_time |-> event.end.v]]

\* lines 597-608: the event body sent to the calendar
EventBody(id, title, start_dt, end_dt) ==
    [start |-> DateTime(start_dt), end |-> DateTime(end_dt),
     summary |-> title, id |-> id]

\* the calendar after events().insert: the event takes its place by start time
InsertEvent(cal, event) ==
    LET before == SelectSeq(cal, LAMBDA e :
                      ParseEventTime(e.start) <= ParseEventTime(event.start))
        after == SelectSeq(cal, LAMBDA e :
                      ParseEventTime(e.start) > ParseEventTime(event.start))
    IN before \o <<event>> \o after

\* a request that has not started
NewRequest(params) ==
    [pc |-> "start", params |-> params, now |-> 0, start_dt |-> 0, end_dt |-> 0,
     check |-> [done |-> FALSE, fetched |-> FALSE, seen |-> << >>,
                result |-> NoConflict],
     ops |-> << >>, inserted |-> FALSE, result |-> "None"]

Finish(r, result) == [r EXCEPT !.pc = "done", !.result = result]

\* the request goes to the conflict check with its start and end unresolved
BeginCreate_Unresolved(r, now_, tz_env, available) ==
    IF ~ ValidParams(r.params) THEN Finish(r, InvalidParameters)
    ELSE IF ~ available THEN Finish(r, Failed("Google Calendar not available"))
    ELSE [r EXCEPT !.pc = "check", !.now = now_]

\* actions.py lines 89-108 and calendar_service.py lines 389-572: the
\* parameters are validated, the calendar service is obtained and the start
\* and end of the event are resolved
BeginCreate(r, now_, tz_env, available) ==
    LET resolved == ResolveStart(r.params.time_window, now_, tz_env)
    IN IF ~ ValidParams(r.params) THEN Finish(r, InvalidParameters)
       ELSE IF ~ available THEN Finish(r, Failed("Google Calendar not available"))
       ELSE IF ~ resolved.ok THEN Finish(r, Failed(resolved.error))
       ELSE [r EXCEPT !.pc = "check", !.now = now_,
                      !.start_dt = resolved.start_dt,
                      !.end_dt = resolved.start_dt
                                   + Minutes(r.params.duration_minutes)]

\* the event is created although the check reported a conflict
AfterCheck_IgnoreConflict(r, checked, fetched, cal) ==
    [r EXCEPT !.pc = "insert",
              !.check = [done |-> TRUE, fetched |-> fetched, seen |-> cal,
                         result |-> checked],
              !.ops = Append(@, "list")]

\* lines 574-581 (and 619-621 should the check raise): a conflict ends the
\* request, anything else goes on to the insert
AfterCheck(r, checked, fetched, cal) ==
    LET r2 == [r EXCEPT !.check = [done |-> TRUE, fetched |-> fetched,
                                   seen |-> cal, result |-> checked],
                        !.ops = Append(@, "list")]
    IN IF checked.raised THEN Finish(r2, Failed("exception"))
       ELSE IF checked.has_conflict THEN Finish(r2, Rejected(checked.conflict_msg))
       ELSE [r2 EXCEPT !.pc = "insert"]

(***************************************************************************)
(* Input domains                                                           *)
(***************************************************************************)
\* 09:00 Pacific of day 0 plus k half hours
GridTime(k) == Instant(ReplaceHM(0, 9, 0), Pacific) + Minutes(30) * k
GridIdx == 0 .. MaxGrid

TimedEvents ==
    { [start |-> DateTime(GridTime(i)), end |-> DateTime(GridTime(j)),
       summary |-> "busy", id |-> 0] : i \in GridIdx, j \in GridIdx }

AllDayEvents ==
    { [start |-> Date(0), end |-> Date(1), summary |-> "allday", id |-> 0] }

ValidEvent(e) == ParseEventTime(e.start) < ParseEventTime(e.end)

EventPool == { e \in TimedEvents \cup AllDayEvents : ValidEvent(e) }

SortedByStart(s) ==
    \A i \in 1 .. Len(s) - 1 :
        ParseEventTime(s[i].start) <= ParseEventTime(s[i + 1].start)

\* the calendars of at most MaxEvents events, ordered by start time
Calendars ==
    { s \in UNION { [1 .. n -> EventPool] : n \in 0 .. MaxEvents } :
        SortedByStart(s) }

Durations == {30, 60}

\* before the grid, on the grid, and between two grid points
NowChoices ==
    { GridTime(0) - Hours(1) } \cup { GridTime(k) : k \in 0 .. 3 }
        \cup { GridTime(1) + Minutes(10) }

NoCall == [op |-> "none"]
NoReq == << >>

(***************************************************************************)
(* Direct calls of get_free_slots                                          *)
(***************************************************************************)
Iso(t) == [kind |-> "iso", v |-> t]
Keyword(k) == [kind |-> k, v |-> 0]
DaysAhead(n) == [kind |-> "days", v |-> n]

\* the windows asked for: ISO date-times on the grid, and the relative forms
Windows ==
    { <<Iso(GridTime(i)), Iso(GridTime(j))>> :
        i \in GridIdx, j \in GridIdx }
    \cup { <<Keyword("today"), Keyword("today")>>,
           <<Keyword("today"), Keyword("tomorrow")>>,
           <<Keyword("tomorrow"), Keyword("tomorrow")>>,
           <<Keyword("today"), DaysAhead(1)>> }
    \cup { <<Iso(GridTime(i)), Keyword("today")>> : i \in GridIdx }

InitFreeSlots ==
    /\ calendar \in Calendars
    /\ now \in NowChoices
    /\ TZ = ""
    /\ CALENDAR_AVAILABLE \in BOOLEAN
    /\ \E w \in Windows, d \in Durations :
          /\ w[1].kind = "iso" /\ w[2].kind = "iso" => w[1].v < w[2].v
          /\ call = [op |-> "get_free_slots", start_date |-> w[1],
                     end_date |-> w[2], duration_minutes |-> d,
                     pc |-> "called"]
    /\ out = << >>
    /\ req = NoReq

\* lines 54-243: the call returns the slots
GetFreeSlots ==
    /\ call.op = "get_free_slots" /\ call.pc = "called"
    /\ out' = IF CALENDAR_AVAILABLE
              THEN get_free_slots(calendar, call.start_date, call.end_date,
                                  call.duration_minutes, now)
              ELSE << >>
    /\ call' = [call EXCEPT !.pc = "returned"]
    /\ UNCHANGED <<calendar, now, TZ, CALENDAR_AVAILABLE, req>>

\* lines 245-247: the fetch of the events raises and the call returns []
GetFreeSlotsFetchFails ==
    /\ call.op = "get_free_slots" /\ call.pc = "called"
    /\ CALENDAR_AVAILABLE
    /\ out' = << >>
    /\ call' = [call EXCEPT !.pc = "failed"]
    /\ UNCHANGED <<calendar, now, TZ, CALENDAR_AVAILABLE, req>>

NextFreeSlots == GetFreeSlots \/ GetFreeSlotsFetchFails

SpecFreeSlots == InitFreeSlots /\ [][NextFreeSlots]_vars

(***************************************************************************)
(* Direct calls of check_time_conflict                                     *)
(***************************************************************************)
InitConflict ==
    /\ calendar \in Calendars
    /\ now = GridTime(0) - Hours(1)
    /\ TZ = ""
    /\ CALENDAR_AVAILABLE \in BOOLEAN
    /\ \E i \in GridIdx, j \in GridIdx :
          /\ i < j
          /\ call = [op |-> "check_time_conflict", start_dt |-> GridTime(i),
                     end_dt |-> GridTime(j), pc |-> "called"]
    /\ out = NoConflict
    /\ req = NoReq

\* lines 260-362: the check returns with the events fetched
CheckTimeConflict ==
    /\ call.op = "check_time_conflict" /\ call.pc = "called"
    /\ out' = check_time_conflict(CALENDAR_AVAILABLE, TRUE, calendar,
                                  call.start_dt, call.end_dt)
    /\ call' = [call EXCEPT !.pc = "returned"]
    /\ UNCHANGED <<calendar, now, TZ, CALENDAR_AVAILABLE, req>>

\* lines 364-367: the fetch raises inside the check
CheckTimeConflictFetchFails ==
    /\ call.op = "check_time_conflict" /\ call.pc = "called"
    /\ CALENDAR_AVAILABLE
    /\ out' = check_time_conflict(CALENDAR_AVAILABLE, FALSE, calendar,
                                  call.start_dt, call.end_dt)
    /\ call' = [call EXCEPT !.pc = "failed"]
    /\ UNCHANGED <<calendar, now, TZ, CALENDAR_AVAILABLE, req>>

NextConflict == CheckTimeConflict \/ CheckTimeConflictFetchFails

SpecConflict == InitConflict /\ [][NextConflict]_vars

(***************************************************************************)
(* Requests to execute a create_calendar_block action                      *)
(***************************************************************************)
\* execute_action is called for request p
ExecuteAction(p) ==
    /\ req[p].pc = "start"
    /\ req' = [req EXCEPT ![p] = BeginCreate(@, now, TZ, CALENDAR_AVAILABLE)]
    /\ UNCHANGED <<calendar, now, TZ, CALENDAR_AVAILABLE, call, out>>

\* calendar_service.py line 393: get_calendar_service raises (no credentials)
GetServiceFails(p) ==
    /\ req[p].pc = "start"
    /\ ValidParams(req[p].params) /\ CALENDAR_AVAILABLE
    /\ req' = [req EXCEPT ![p] = Finish(@, Failed("exception"))]
    /\ UNCHANGED <<calendar, now, TZ, CALENDAR_AVAILABLE, call, out>>

\* lines 574-581: check_time_conflict with the busy events fetched
CheckConflicts(p) ==
    /\ req[p].pc = "check"
    /\ req' = [req EXCEPT ![p] =
                  AfterCheck(@, check_time_conflict(CALENDAR_AVAILABLE, TRUE,
                                     calendar, @.start_dt, @.end_dt),
                             TRUE, calendar)]
    /\ UNCHANGED <<calendar, now, TZ, CALENDAR_AVAILABLE, call, out>>

\* lines 574-581: check_time_conflict with the fetch of the busy events failing
CheckConflictsFetchFails(p) ==
    /\ req[p].pc = "check"
    /\ req' = [req EXCEPT ![p] =
                  AfterCheck(@, check_time_conflict(CALENDAR_AVAILABLE, FALSE,
                                     calendar, @.start_dt, @.end_dt),
                             FALSE, calendar)]
    /\ UNCHANGED <<calendar, now, TZ, CALENDAR_AVAILABLE, call, out>>

\* lines 583-617: events().insert succeeds
CreateEvent(p) ==
    /\ req[p].pc = "insert"
    /\ LET event == EventBody(p, req[p].params.purpose,
                              req[p].start_dt, req[p].end_dt)
       IN /\ calendar' = InsertEvent(calendar, event)
          /\ req' = [req EXCEPT ![p] =
                        Finish([@ EXCEPT !.inserted = TRUE,
                                         !.ops = Append(@, "insert")],
                               Created(event))]
    /\ UNCHANGED <<now, TZ, CALENDAR_AVAILABLE, call, out>>

\* lines 610 and 619-621: events().insert raises
CreateEventFails(p) ==
    /\ req[p].pc = "insert"
    /\ req' = [req EXCEPT ![p] =
                  Finish([@ EXCEPT !.ops = Append(@, "insert")],
                         Failed("exception"))]
    /\ UNCHANGED <<calendar, now, TZ, CALENDAR_AVAILABLE, call, out>>

Next ==
    \/ \E p \in DOMAIN req : ExecuteAction(p)
    \/ \E p \in DOMAIN req : GetServiceFails(p)
    \/ \E p \in DOMAIN req : CheckConflicts(p)
    \/ \E p \in DOMAIN req : CheckConflictsFetchFails(p)
    \/ \E p \in DOMAIN req : CreateEvent(p)
    \/ \E p \in DOMAIN req : CreateEventFails(p)

\* an explicit date-time: wall-clock reading, optional offset, optional |zone
DateTimeSpec(wall, offset, zone) ==
    [kind |-> "datetime", wall |-> wall, offset |-> offset, zone |-> zone,
     extra |-> FALSE]
\* a date-time followed by characters that belong to no date-time, as in
\* "2026-03-12T10:00 or so"
DateTimeThenText(wall, zone) ==
    [kind |-> "datetime", wall |-> wall, offset |-> "none", zone |-> zone,
     extra |-> TRUE]
KeywordSpec(name) == [kind |-> "keyword", name |-> name]
Unset == [kind |-> "none"]
OtherText == [kind |-> "text"]

Params(time_window, duration_minutes, purpose) ==
    [time_window |-> time_window, duration_minutes |-> duration_minutes,
     purpose |-> purpose]

\* two requests that may run at the same time
Requests == {1, 2}

\* what the two requests ask for: a grid time, a keyword, or nothing; and
\* parameters the schema refuses: a duration just outside 5..240, no purpose
RequestParams ==
    { Params(w, d, "rest") :
        w \in { DateTimeSpec(Wall(GridTime(k), Pacific), "none", "") : k \in {2, 3} }
              \cup { KeywordSpec("today_morning"), Unset },
        d \in Durations \cup {0} }
    \cup { Params(DateTimeSpec(Wall(GridTime(2), Pacific), "none", ""), d, "rest") :
             d \in {4, 241} }
    \cup { Params(DateTimeSpec(Wall(GridTime(2), Pacific), "none", ""), 30,
                  "missing") }

Init ==
    /\ calendar \in { c \in Calendars : Len(c) <= 1 }
    /\ now \in { GridTime(0) - Hours(1), GridTime(1) + Minutes(10) }
    /\ TZ = ""
    /\ CALENDAR_AVAILABLE \in BOOLEAN
    /\ call = NoCall
    /\ out = << >>
    /\ req \in [Requests -> { NewRequest(prm) : prm \in RequestParams }]

Spec == Init /\ [][Next]_vars

(***************************************************************************)
(* One request, over the time specs, the clock and the server's zone       *)
(***************************************************************************)
\* days before the current day that an explicit date-time may name
MaxPastDays == 2

\* the clock: day 1 in Pacific, around the keyword hours and the 5-minute marks
ClockSamples ==
    { Instant(Days(1) + Hours(h) + Minutes(m) + sec, Pacific) :
        h \in {0, 6, 8, 9, 10, 11, 14, 16, 19, 23}, m \in {0, 3, 5, 58},
        sec \in {0, 30} }

\* explicit date-times from MaxPastDays before the current day to the day after
ExplicitSpecs ==
    { DateTimeSpec(Days(d) + Hours(h), offset, zone) :
        d \in (1 - MaxPastDays) .. 2, h \in {9, 10, 23},
        offset \in {"none", "-08:00"}, zone \in {"", Pacific, Eastern} }

\* date-times followed by other characters
TrailingTextSpecs ==
    { DateTimeThenText(Days(d) + Hours(10), zone) :
        d \in {1, 2}, zone \in {"", Eastern} }

TimeSpecs ==
    { KeywordSpec(k) : k \in Keywords } \cup ExplicitSpecs
        \cup TrailingTextSpecs \cup {Unset, OtherText}

\* a busy hour on the day after the current one
BusyTomorrow ==
    [start |-> DateTime(Instant(Days(2) + Hours(9), Pacific)),
     end |-> DateTime(Instant(Days(2) + Hours(10), Pacific)),
     summary |-> "busy", id |-> 0]

InitResolve ==
    /\ calendar \in { << >>, <<BusyTomorrow>> }
    /\ now \in ClockSamples
    /\ TZ \in {"", Eastern}
    /\ CALENDAR_AVAILABLE = TRUE
    /\ call = NoCall
    /\ out = << >>
    /\ req \in [{1} -> { NewRequest(Params(w, 30, "rest")) : w \in TimeSpecs }]

SpecResolve == InitResolve /\ [][Next]_vars

(***************************************************************************)
(* analyze_preferred_times (agent_suggestions.py)                          *)
(*                                                                         *)
(* An entry of recent_actions carries actionType, outcome and, in params,  *)
(* the time_window text of the action: a time spec as above, or no         *)
(* time_window key at all.                                                 *)
(***************************************************************************)
Absent == [kind |-> "absent"]

PastAction(actionType, outcome, time_window) ==
    [actionType |-> actionType, outcome |-> outcome, time_window |-> time_window]

\* lines 243-248: datetime.fromisoformat(...).hour, the hour written in the
\* text; a text with a |zone or with other characters after the date-time
\* raises ValueError and gives no hour
IsoHour(time_window) ==
    IF time_window.zone # "" \/ time_window.extra THEN << >>
    ELSE << (time_window.wall % 86400) \div 3600 >>

\* lines 250-255: 'morning', 'afternoon' or 'evening' inside the text
RelativeHour(name) ==
    CASE name \in {"today_morning", "tomorrow_morning"} -> << 9 >>
      [] name \in {"today_afternoon", "tomorrow_afternoon"} -> << 14 >>
      [] name = "today_evening" -> << 19 >>
      [] OTHER -> << >>

\* lines 238-255: the hour an action contributes, if any
ExtractHour(action) ==
    IF action.actionType = "create_calendar_block" /\ action.outcome = "confirmed"
    THEN CASE action.time_window.kind = "datetime" -> IsoHour(action.time_window)
           [] action.time_window.kind = "keyword" ->
                  RelativeHour(action.time_window.name)
           [] OTHER -> << >>
    ELSE << >>

\* lines 236-255: scheduled_hours, in the order of the history
RECURSIVE ScheduledHours(_)
ScheduledHours(recent_actions) ==
    IF recent_actions = << >> THEN << >>
    ELSE ScheduledHours(SubSeq(recent_actions, 1, Len(recent_actions) - 1))
             \o ExtractHour(recent_actions[Len(recent_actions)])

\* Counter(scheduled_hours): the count of an hour
HourCount(scheduled_hours, hour) ==
    Cardinality({ i \in DOMAIN scheduled_hours : scheduled_hours[i] = hour })

\* Counter(scheduled_hours): its keys, in the order of their first occurrence
RECURSIVE CounterKeys(_)
CounterKeys(scheduled_hours) ==
    IF scheduled_hours = << >> THEN << >>
    ELSE LET keys == CounterKeys(SubSeq(scheduled_hours, 1,
                                        Len(scheduled_hours) - 1))
             last == scheduled_hours[Len(scheduled_hours)]
         IN IF \E i \in DOMAIN keys : keys[i] = last THEN keys
            ELSE Append(keys, last)

\* line 263: Counter.most_common(n): the keys by decreasing count, keys of
\* equal count in the order of their first occurrence, cut to n
MostCommon(scheduled_hours, n) ==
    LET keys == CounterKeys(scheduled_hours)
        Before(i, j) ==
            \/ HourCount(scheduled_hours, keys[i]) > HourCount(scheduled_hours, keys[j])
            \/ /\ HourCount(scheduled_hours, keys[i]) = HourCount(scheduled_hours, keys[j])
               /\ i < j
        Place(j) == 1 + Cardinality({ i \in DOMAIN keys : Before(i, j) })
        m == IF Len(keys) < n THEN Len(keys) ELSE n
    IN [ k \in 1 .. m |-> keys[CHOOSE j \in DOMAIN keys : Place(j) = k] ]

RECURSIVE SumHours(_)
SumHours(scheduled_hours) ==
    IF scheduled_hours = << >> THEN 0
    ELSE scheduled_hours[1] + SumHours(Tail(scheduled_hours))

\* lines 265-272: the average hour is before 12, before 17, or later
TimeOfDay(scheduled_hours) ==
    IF SumHours(scheduled_hours) < 12 * Len(scheduled_hours) THEN "morning"
    ELSE IF SumHours(scheduled_hours) < 17 * Len(scheduled_hours) THEN "afternoon"
    ELSE "evening"

\* lines 233 and 258
NoPreferences ==
    [preferred_hours |-> << >>, preferred_time_of_day |-> "None",
     has_pattern |-> FALSE]

\* a pattern seen in a single sample
HasPattern_AnySample(scheduled_hours) == Len(scheduled_hours) >= 1

\* line 277
HasPattern(scheduled_hours) == Len(scheduled_hours) >= 2

\* lines 220-278
analyze_preferred_times(recent_actions) ==
    LET scheduled_hours == ScheduledHours(recent_actions)
    IN IF scheduled_hours = << >> THEN NoPreferences
       ELSE [preferred_hours |-> MostCommon(scheduled_hours, 3),
             preferred_time_of_day |-> TimeOfDay(scheduled_hours),
             has_pattern |-> HasPattern(scheduled_hours)]

(***************************************************************************)
(* Direct calls of analyze_preferred_times                                 *)
(***************************************************************************)
\* most entries in recent_actions
MaxHistory == 4

\* an ISO date-time of day 0 at the given hour, as a suggestion carries it
IsoAtHour(hour) == DateTimeSpec(Hours(hour), "-08:00", "")

\* the entries of a history: confirmed calendar blocks at several hours, in
\* relative words, without an hour, and entries of another type or outcome
PastActions ==
    { PastAction("create_calendar_block", "confirmed", w) :
        w \in { IsoAtHour(h) : h \in {7, 9, 14, 20} }
              \cup { KeywordSpec("today_morning"), KeywordSpec("now"), Absent,
                     DateTimeSpec(Hours(9), "none", Eastern) } }
    \cup { PastAction("create_calendar_block", "dismissed", IsoAtHour(9)),
           PastAction("create_journal_entry", "confirmed", IsoAtHour(9)) }

Histories == UNION { [1 .. n -> PastActions] : n \in 0 .. MaxHistory }

InitPreferences ==
    /\ calendar = << >>
    /\ now = GridTime(0)
    /\ TZ = ""
    /\ CALENDAR_AVAILABLE = TRUE
    /\ \E h \in Histories :
          call = [op |-> "analyze_preferred_times", recent_actions |-> h,
                  pc |-> "called"]
    /\ out = NoPreferences
    /\ req = NoReq

\* lines 220-278: the call returns the profile
AnalyzePreferredTimes ==
    /\ call.op = "analyze_preferred_times" /\ call.pc = "called"
    /\ out' = analyze_preferred_times(call.recent_actions)
    /\ call' = [call EXCEPT !.pc = "returned"]
    /\ UNCHANGED <<calendar, now, TZ, CALENDAR_AVAILABLE, req>>

NextPreferences == AnalyzePreferredTimes

SpecPreferences == InitPreferences /\ [][NextPreferences]_vars

(***************************************************************************)
(* select_best_free_slot (agent_suggestions.py)                            *)
(***************************************************************************)
\* slot['start'] is the ISO text of the start in Pacific time; its hour
SlotHour(slot) == (Wall(slot.start, Pacific) % 86400) \div 3600

Abs(n) == IF n < 0 THEN 0 - n ELSE n

\* smallest element of a non-empty set of numbers
Min(S) == CHOOSE x \in S : \A y \in S : x <= y

\* lines 314-320: 24 minus the distance to the nearest preferred hour
Score(slot, preferred_hours) ==
    24 - Min({ Abs(SlotHour(slot) - preferred_hours[k]) :
                 k \in DOMAIN preferred_hours })

\* every slot kept, whatever its duration
SuitableSlots_All(free_slots, duration_minutes) == free_slots

\* line 301: the slots that last at least the required duration
SuitableSlots(free_slots, duration_minutes) ==
    SelectSeq(free_slots, LAMBDA slot : slot.duration_minutes >= duration_minutes)

\* the first slot, whatever its score
BestScored_First(suitable_slots, preferred_hours) == suitable_slots[1]

\* lines 311-329: the stable sort by decreasing score puts first the earliest
\* slot of the list among those of the highest score
BestScored(suitable_slots, preferred_hours) ==
    suitable_slots[
        CHOOSE i \in DOMAIN suitable_slots :
            \A j \in DOMAIN suitable_slots :
                \/ Score(suitable_slots[i], preferred_hours)
                      > Score(suitable_slots[j], preferred_hours)
                \/ /\ Score(suitable_slots[i], preferred_hours)
                         = Score(suitable_slots[j], preferred_hours)
                   /\ i <= j ]

\* lines 281-332: the result is a sequence holding the slot, empty for None
select_best_free_slot(free_slots, preferred_times, duration_minutes) ==
    LET suitable_slots == SuitableSlots(free_slots, duration_minutes)
    IN IF suitable_slots = << >> THEN << >>
       ELSE IF preferred_times.has_pattern
               /\ preferred_times.preferred_hours # << >>
            THEN << BestScored(suitable_slots, preferred_times.preferred_hours) >>
       ELSE << suitable_slots[1] >>

(***************************************************************************)
(* generate_agent_suggestions (agent_suggestions.py)                       *)
(*                                                                         *)
(* The language model's answer is a list of action_data; message stands    *)
(* for the text of the suggestion and tells the suggestions apart.         *)
(***************************************************************************)
CalendarData(message, duration_minutes, time_window) ==
    [type |-> "create_calendar_block", message |-> message,
     params |-> [duration_minutes |-> duration_minutes, purpose |-> "rest",
                 time_window |-> time_window]]
JournalData(message) ==
    [type |-> "create_journal_entry", message |-> message,
     params |-> [prompt_template |-> "prompt"]]
\* a type that AgentAction does not accept
InvalidData(message) ==
    [type |-> "unknown", message |-> message, params |-> [reason |-> "none"]]

\* slot["start"]: the ISO text of the start of a slot, with the Pacific offset
SlotIso(t) == DateTimeSpec(Wall(t, Pacific), "-08:00", "")

\* lines 490-495: the slots of the 7 days that start one hour from now; an
\* unavailable calendar and a failed fetch both give []
SearchFreeSlots(cal, duration, now_, available, fetched) ==
    IF available /\ fetched
    THEN get_free_slots(cal, Iso(now_ + Hours(1)), DaysAhead(7), duration, now_)
    ELSE << >>

\* lines 500-503: the slots that start at least one hour from now
FutureOf(free_slots, start_from) ==
    SelectSeq(free_slots, LAMBDA slot : slot.start >= start_from)

\* the suggestion kept as the model gave it
NoSlotsFound_Keep(action_data) == << action_data >>

\* lines 520-527: without a slot the calendar suggestion is skipped
NoSlotsFound(action_data) == << >>

\* a time_window given by the model is kept
CalendarSuggestion_KeepModelTime(action_data, recent_actions, cal, now_, available, fetched) ==
    LET duration == action_data.params.duration_minutes
        future_slots == FutureOf(SearchFreeSlots(cal, duration, now_, available,
                                                 fetched), now_ + Hours(1))
    IN IF action_data.params.time_window # Absent THEN << action_data >>
       ELSE IF future_slots = << >> THEN << >>
       ELSE << [action_data EXCEPT
                   !.params.time_window = SlotIso(future_slots[1].start)] >>

\* lines 446-556: a calendar suggestion gets the start of the chosen slot as
\* its time_window, whatever time_window the model gave
CalendarSuggestion(action_data, recent_actions, cal, now_, available, fetched) ==
    LET duration == action_data.params.duration_minutes
        preferred_times == analyze_preferred_times(recent_actions)
        free_slots == SearchFreeSlots(cal, duration, now_, available, fetched)
        future_slots == FutureOf(free_slots, now_ + Hours(1))
        best_slot == select_best_free_slot(future_slots, preferred_times, duration)
        chosen == IF best_slot # << >> THEN best_slot[1] ELSE future_slots[1]
    IN IF future_slots = << >> THEN NoSlotsFound(action_data)
       ELSE << [action_data EXCEPT !.params.time_window = SlotIso(chosen.start)] >>

\* lines 440-560: one action_data of the answer: at most one action
Suggestion(action_data, recent_actions, cal, now_, available, fetched) ==
    CASE action_data.type = "create_calendar_block" ->
            CalendarSuggestion(action_data, recent_actions, cal, now_,
                               available, fetched)
      [] action_data.type = "unknown" -> << >>
      [] OTHER -> << action_data >>

\* lines 438-560: the loop over the answer; fetched[i] says whether the
\* fetch of the busy events made for actions_data[i] succeeds
RECURSIVE Suggestions(_, _, _, _, _, _, _)
Suggestions(actions_data, i, recent_actions, cal, now_, available, fetched) ==
    IF i > Len(actions_data) THEN << >>
    ELSE Suggestion(actions_data[i], recent_actions, cal, now_, available,
                    fetched[i])
             \o Suggestions(actions_data, i + 1, recent_actions, cal, now_,
                            available, fetched)

\* lines 569-588: the suggestion made when no action is left; action_stats is
\* the acceptance rate of create_journal_entry, in percent
FallbackAction(action_stats) ==
    IF action_stats >= 50
    THEN [type |-> "create_journal_entry", message |-> "fallback",
          params |-> [prompt_template |-> "check in"]]
    ELSE [type |-> "suggest_retake_quiz", message |-> "fallback",
          params |-> [reason |-> "check-ins"]]

\* lines 596-604: the suggestion returned when the generation raised
ErrorFallback ==
    [type |-> "suggest_retake_quiz", message |-> "trouble",
     params |-> [reason |-> "get recommendations"]]

\* the actions that are left, even when none is
generate_agent_suggestions_NoFallback(location, actions_data, recent_actions, action_stats, cal, now_, available, fetched) ==
    IF ~ location THEN << >>
    ELSE Suggestions(actions_data, 1, recent_actions, cal, now_, available, fetched)

\* lines 365-604: the actions of the response.  The import of _run_agent at
\* line 370, inside the branch taken when latitude and longitude are given,
\* makes _run_agent a local name of the function: without a location the name
\* is unbound at line 418, the UnboundLocalError is caught at line 593 and
\* the response is the suggestion of lines 596-604
generate_agent_suggestions(location, actions_data, recent_actions, action_stats, cal, now_, available, fetched) ==
    LET actions == Suggestions(actions_data, 1, recent_actions, cal, now_,
                               available, fetched)
    IN IF ~ location THEN << ErrorFallback >>
       ELSE IF actions = << >> THEN << FallbackAction(action_stats) >>
       ELSE actions

\* the calls of the calendar made for the answer: one events().list for each
\* calendar suggestion when the calendar is available
RECURSIVE CalendarCalls(_, _)
CalendarCalls(actions_data, available) ==
    IF actions_data = << >> THEN << >>
    ELSE (IF Head(actions_data).type = "create_calendar_block" /\ available
          THEN << "list" >> ELSE << >>)
             \o CalendarCalls(Tail(actions_data), available)

(***************************************************************************)
(* Calls of generate_agent_suggestions                                     *)
(***************************************************************************)
\* busy from 07:00 of day 0 to the end of day 7, past the end of the search
BusyWeek ==
    [start |-> DateTime(GridTime(0) - Hours(2)),
     end |-> DateTime(Instant(Days(8), Pacific)),
     summary |-> "away", id |-> 0]

\* busy from 07:00 of day 0 to 23:15 of day 7, 45 minutes before the end of
\* a search that starts on day 0
BusyAlmostWeek ==
    [start |-> DateTime(GridTime(0) - Hours(2)),
     end |-> DateTime(Instant(Days(7) + Hours(23) + Minutes(15), Pacific)),
     summary |-> "away", id |-> 0]

SuggestEvents ==
    { e \in EventPool :
        IF e.start.kind = "dateTime"
        THEN /\ e.start.v \in { GridTime(k) : k \in {0, 1, 3, 4} }
             /\ e.end.v \in { GridTime(k) : k \in {0, 1, 3, 4} }
        ELSE TRUE }
    \cup { BusyWeek, BusyAlmostWeek }

SuggestCalendars ==
    { s \in UNION { [1 .. n -> SuggestEvents] : n \in 0 .. MaxEvents } :
        SortedByStart(s) }

\* the answers of the model: no action, calendar blocks with and without a
\* time_window of the model's own, other actions, actions that are not valid
Answers ==
    { << >>,
      << CalendarData(1, 30, Absent) >>,
      << CalendarData(1, 60, Absent) >>,
      << CalendarData(1, 30, KeywordSpec("now")) >>,
      << JournalData(1) >>,
      << InvalidData(1) >>,
      << CalendarData(1, 60, Absent), JournalData(2) >>,
      << CalendarData(1, 30, Absent), CalendarData(2, 60, Absent) >>,
      << InvalidData(1), CalendarData(2, 30, Absent) >> }

\* the histories sent with the request: none, or blocks confirmed at one hour
SuggestHistories ==
    { << >>,
      << PastAction("create_calendar_block", "confirmed", IsoAtHour(20)) >> }
    \cup { << PastAction("create_calendar_block", "confirmed", IsoAtHour(h)),
              PastAction("create_calendar_block", "confirmed", IsoAtHour(h)) >> :
           h \in {9, 14} }

InitSuggest ==
    /\ calendar \in SuggestCalendars
    /\ now \in { GridTime(0) - Hours(1), GridTime(1) + Minutes(10) }
    /\ TZ = ""
    /\ CALENDAR_AVAILABLE \in BOOLEAN
    /\ \E a \in Answers, h \in SuggestHistories, stats \in {0, 50},
             location \in BOOLEAN :
          call = [op |-> "generate_agent_suggestions", location |-> location,
                  actions_data |-> a,
                  recent_actions |-> h, action_stats |-> stats,
                  fetched |-> [i \in DOMAIN a |-> TRUE], ops |-> << >>,
                  pc |-> "called"]
    /\ out = << >>
    /\ req = NoReq

\* lines 365-604: the call returns the response; with a location the model
\* answers and the fetch of the busy events may fail for any of the calendar
\* suggestions (a failure of the weather call, lines 369-403, changes nothing)
GenerateAgentSuggestions ==
    /\ call.op = "generate_agent_suggestions" /\ call.pc = "called"
    /\ \E fetched \in [DOMAIN call.actions_data -> BOOLEAN] :
          /\ \A i \in DOMAIN fetched :
                ~ fetched[i] => /\ call.actions_data[i].type = "create_calendar_block"
                                /\ CALENDAR_AVAILABLE /\ call.location
          /\ out' = generate_agent_suggestions(call.location, call.actions_data,
                        call.recent_actions, call.action_stats, calendar, now,
                        CALENDAR_AVAILABLE, fetched)
          /\ call' = [call EXCEPT
                         !.pc = IF call.location THEN "returned" ELSE "fallback",
                         !.fetched = fetched,
                         !.ops = IF call.location
                                 THEN CalendarCalls(call.actions_data,
                                                    CALENDAR_AVAILABLE)
                                 ELSE << >>]
    /\ UNCHANGED <<calendar, now, TZ, CALENDAR_AVAILABLE, req>>

\* lines 418 and 593-604: the call of the model raises
RunAgentFails ==
    /\ call.op = "generate_agent_suggestions" /\ call.pc = "called"
    /\ call.location
    /\ out' = << ErrorFallback >>
    /\ call' = [call EXCEPT !.pc = "fallback"]
    /\ UNCHANGED <<calendar, now, TZ, CALENDAR_AVAILABLE, req>>

NextSuggest == GenerateAgentSuggestions \/ RunAgentFails

SpecSuggest == InitSuggest /\ [][NextSuggest]_vars

(***************************************************************************)
(* Direct calls of select_best_free_slot                                   *)
(*                                                                         *)
(* The slot lists are lists get_free_slots returns for the grid window,    *)
(* the profiles are profiles analyze_preferred_times returns.              *)
(***************************************************************************)
\* the slot lists of the grid window, searched for slots of 30 minutes
SlotLists ==
    { get_free_slots(cal, Iso(GridTime(0)), Iso(GridTime(MaxGrid)), 30,
                     GridTime(0) - Hours(1)) : cal \in Calendars }

\* histories of confirmed calendar blocks around the hours of the grid
SelectHistories ==
    UNION { [1 .. n -> { PastAction("create_calendar_block", "confirmed",
                                    IsoAtHour(h)) : h \in {8, 10, 11, 14} }] :
              n \in 0 .. 2 }

Profiles == { analyze_preferred_times(h) : h \in SelectHistories }

InitSelect ==
    /\ calendar = << >>
    /\ now = GridTime(0) - Hours(1)
    /\ TZ = ""
    /\ CALENDAR_AVAILABLE = TRUE
    /\ \E s \in SlotLists, p \in Profiles, d \in {30, 60, 120, 240} :
          call = [op |-> "select_best_free_slot", free_slots |-> s,
                  preferred_times |-> p, duration_minutes |-> d,
                  pc |-> "called"]
    /\ out = << >>
    /\ req = NoReq

\* lines 281-332: the call returns the slot, or None
SelectBestFreeSlot ==
    /\ call.op = "select_best_free_slot" /\ call.pc = "called"
    /\ out' = select_best_free_slot(call.free_slots, call.preferred_times,
                                    call.duration_minutes)
    /\ call' = [call EXCEPT !.pc = "returned"]
    /\ UNCHANGED <<calendar, now, TZ, CALENDAR_AVAILABLE, req>>

NextSelect == SelectBestFreeSlot

SpecSelect == InitSelect /\ [][NextSelect]_vars

(***************************************************************************)
(* The MCP tool calendar_create_event (selfcare_mcp.py)                    *)
(*                                                                         *)
(* The tool reads the clock in UTC, resolves the start, and inserts the    *)
(* event.  out is the JSON it returns.                                     *)
(***************************************************************************)
Utc == "UTC"

\* the UTC offset written at the end of an ISO date-time, in seconds
ParseOffset(offset) ==
    CASE offset = "-08:00" -> 0 - Hours(8)
      [] offset = "-05:00" -> 0 - Hours(5)
      [] OTHER -> 0

\* lines 397-411: datetime.fromisoformat reads the date-time with its offset;
\* a text without offset is taken in now.tzinfo, which is UTC; a |zone or any
\* other text after the date-time raises ValueError; a time before now is
\* moved one day on
McpResolveExplicit(spec, now_) ==
    LET start_dt == IF spec.offset = "none" THEN Instant(spec.wall, Utc)
                    ELSE spec.wall - ParseOffset(spec.offset)
    IN IF spec.zone # "" \/ spec.extra
       THEN [ok |-> FALSE, error |-> "ValueError"]
       ELSE [ok |-> TRUE,
             start_dt |-> IF start_dt < now_ THEN start_dt + Days(1)
                          ELSE start_dt]

\* lines 413-424: a start that is not after now becomes now + 5 minutes
McpFinalSafetyCheck(start_dt, now_) ==
    IF start_dt <= now_ THEN TruncMinute(now_ + Minutes(5)) ELSE start_dt

\* lines 348-424: the start of the event; the keywords are read on the UTC
\* wall clock; None raises TypeError at line 401 and a text that is no
\* keyword and no date-time raises ValueError, both caught at line 481
McpResolveStart(start_time, now_) ==
    CASE start_time.kind = "keyword" ->
            [ok |-> TRUE,
             start_dt |-> McpFinalSafetyCheck(
                 Instant(ResolveKeyword(start_time.name, Wall(now_, Utc)), Utc),
                 now_)]
      [] start_time.kind = "datetime" ->
            LET parsed == McpResolveExplicit(start_time, now_)
            IN IF parsed.ok
               THEN [ok |-> TRUE,
                     start_dt |-> McpFinalSafetyCheck(parsed.start_dt, now_)]
               ELSE parsed
      [] start_time.kind = "none" -> [ok |-> FALSE, error |-> "TypeError"]
      [] OTHER -> [ok |-> FALSE, error |-> "ValueError"]

\* lines 473-479
McpCreated(event) ==
    [error |-> "None", inserted |-> TRUE,
     start |-> event.start.v, end |-> event.end.v]

\* lines 340 and 481-485
McpError(error) == [error |-> error, inserted |-> FALSE, start |-> 0, end |-> 0]

\* lines 339-485: what the tool returns and the calendar it leaves
calendar_create_event(cal, title, start_time, duration_minutes, now_, available) ==
    LET resolved == McpResolveStart(start_time, now_)
        event == EventBody(1, title, resolved.start_dt,
                           resolved.start_dt + Minutes(duration_minutes))
    IN IF ~ available
       THEN [out |-> McpError("Google Calendar not available"), calendar |-> cal]
       ELSE IF ~ resolved.ok
       THEN [out |-> McpError(resolved.error), calendar |-> cal]
       ELSE [out |-> McpCreated(event), calendar |-> InsertEvent(cal, event)]

\* the time specs given to the tool: grid times written with the Pacific
\* offset and without offset, keywords, nothing, and a text that is no time
McpTimeSpecs ==
    { DateTimeSpec(Wall(GridTime(k), Pacific), offset, "") :
        k \in {2, 3, 4}, offset \in {"none", "-08:00"} }
    \cup { KeywordSpec(k) : k \in {"now", "today_morning", "in_1_hour"} }
    \cup { Unset, OtherText,
           DateTimeSpec(Wall(GridTime(2), Pacific), "none", Pacific) }

InitMcp ==
    /\ calendar \in { c \in Calendars : Len(c) <= 1 }
    /\ now \in { GridTime(0) - Hours(1), GridTime(1) + Minutes(10) }
    /\ TZ \in {"", Utc}
    /\ CALENDAR_AVAILABLE \in BOOLEAN
    /\ \E w \in McpTimeSpecs, d \in Durations :
          call = [op |-> "calendar_create_event", title |-> "rest",
                  start_time |-> w, duration_minutes |-> d, pc |-> "called"]
    /\ out = McpError("None")
    /\ req = NoReq

\* lines 339-479: the tool runs to its return
CalendarCreateEvent ==
    /\ call.op = "calendar_create_event" /\ call.pc = "called"
    /\ LET done == calendar_create_event(calendar, call.title, call.start_time,
                                         call.duration_minutes, now,
                                         CALENDAR_AVAILABLE)
       IN out' = done.out /\ calendar' = done.calendar
    /\ call' = [call EXCEPT !.pc = "returned"]
    /\ UNCHANGED <<now, TZ, CALENDAR_AVAILABLE, req>>

\* lines 343, 471 and 481-485: get_calendar_service or events().insert raises
CalendarCreateEventFails ==
    /\ call.op = "calendar_create_event" /\ call.pc = "called"
    /\ CALENDAR_AVAILABLE
    /\ out' = McpError("exception")
    /\ call' = [call EXCEPT !.pc = "failed"]
    /\ UNCHANGED <<calendar, now, TZ, CALENDAR_AVAILABLE, req>>

NextMcp == CalendarCreateEvent \/ CalendarCreateEventFails

SpecMcp == InitMcp /\ [][NextMcp]_vars

(***************************************************************************)
(* From a suggestion to its booking                                        *)
(*                                                                         *)
(* generate_agent_suggestions answers /api/agent_suggestions; the user     *)
(* confirms the calendar suggestion some time later and the frontend posts *)
(* it back to /api/execute_action.                                         *)
(***************************************************************************)
\* the time between the suggestion and its confirmation
Delays == { 0, Minutes(30), Minutes(90) }

\* the clock at the suggestion: on the minute, and 30 seconds past it
TripClocks ==
    { GridTime(0) - Hours(1), GridTime(0) - Hours(1) + 30,
      GridTime(1) + Minutes(10) }

InitRoundTrip ==
    /\ calendar \in { c \in SuggestCalendars : Len(c) <= 1 }
    /\ now \in TripClocks
    /\ TZ \in {"", Eastern}
    /\ CALENDAR_AVAILABLE = TRUE
    /\ \E d \in Durations, h \in SuggestHistories :
          call = [op |-> "generate_agent_suggestions", location |-> TRUE,
                  actions_data |-> << CalendarData(1, d, Absent) >>,
                  recent_actions |-> h, action_stats |-> 0,
                  fetched |-> << TRUE >>, ops |-> << >>, pc |-> "called"]
    /\ out = << >>
    /\ req = NoReq

\* main.py lines 125-141: the user confirms calendar suggestion k of the
\* response and the action is posted for execution; suggested_at keeps the
\* time of the suggestion
ConfirmSuggestion ==
    /\ call.op = "generate_agent_suggestions" /\ call.pc = "returned"
    /\ req = NoReq
    /\ \E k \in DOMAIN out, delay \in Delays :
          /\ out[k].type = "create_calendar_block"
          /\ now' = now + delay
          /\ req' = << NewRequest(Params(out[k].params.time_window,
                                         out[k].params.duration_minutes,
                                         out[k].params.purpose)) >>
          /\ call' = [op |-> "generate_agent_suggestions", pc |-> "confirmed",
                      suggested_at |-> now]
    /\ UNCHANGED <<calendar, TZ, CALENDAR_AVAILABLE, out>>

NextRoundTrip ==
    \/ GenerateAgentSuggestions
    \/ RunAgentFails
    \/ ConfirmSuggestion
    \/ \E p \in DOMAIN req : ExecuteAction(p)
    \/ \E p \in DOMAIN req : GetServiceFails(p)
    \/ \E p \in DOMAIN req : CheckConflicts(p)
    \/ \E p \in DOMAIN req : CheckConflictsFetchFails(p)
    \/ \E p \in DOMAIN req : CreateEvent(p)
    \/ \E p \in DOMAIN req : CreateEventFails(p)

SpecRoundTrip == InitRoundTrip /\ [][NextRoundTrip]_vars

(***************************************************************************)
(* Properties of get_free_slots                                            *)
(***************************************************************************)
IsTimed(e) == e.start.kind = "dateTime"
TimedOnly(cal) == SelectSeq(cal, IsTimed)

\* half-open overlap of [s1, e1) and [s2, e2)
Overlap(s1, e1, s2, e2) == s1 < e2 /\ e1 > s2

\* the call of get_free_slots has returned the slots in out
SlotsReturned ==
    call.op = "get_free_slots" /\ call.pc = "returned" /\ CALENDAR_AVAILABLE

\* C1: no slot returned by get_free_slots overlaps a timed busy event of the
\* calendar (slot.start < busy.end and slot.end > busy.start never holds),
\* whatever the events (overlapping, nested), the window, the minimum and now.
C1_NoSlotOverlapsBusy ==
    SlotsReturned =>
        \A k \in 1 .. Len(out) : \A i \in 1 .. Len(calendar) :
            IsTimed(calendar[i]) =>
                ~ Overlap(out[k].start, out[k].end,
                          calendar[i].start.v, calendar[i].end.v)

\* a slot is returned after two nested timed events
C1_Witness ==
    /\ SlotsReturned
    /\ \E i \in 1 .. Len(calendar), j \in 1 .. Len(calendar) :
          /\ IsTimed(calendar[i]) /\ IsTimed(calendar[j])
          /\ calendar[i].start.v < calendar[j].start.v
          /\ calendar[j].end.v < calendar[i].end.v
          /\ \E k \in 1 .. Len(out) : out[k].start = calendar[i].end.v

\* C2: every slot returned by get_free_slots lasts at least duration_minutes
\* and starts no earlier than now, also when the window starts before now.
C2_SlotLongEnoughAndFuture ==
    SlotsReturned =>
        \A k \in 1 .. Len(out) :
            /\ out[k].end - out[k].start >= call.duration_minutes * 60
            /\ out[k].start >= now

\* a slot is returned for a window that starts before now
C2_Witness ==
    /\ SlotsReturned
    /\ Len(out) >= 1
    /\ \/ call.start_date.kind = "iso" /\ call.start_date.v < now
       \/ call.start_date.kind = "today"

\* the call's case for C3: ISO window [ws, we], one timed event strictly inside
\* it, now <= ws, both gaps at least duration_minutes long
C3_Case ==
    /\ SlotsReturned
    /\ call.start_date.kind = "iso" /\ call.end_date.kind = "iso"
    /\ Len(calendar) = 1 /\ IsTimed(calendar[1])
    /\ call.start_date.v < calendar[1].start.v
    /\ calendar[1].end.v < call.end_date.v
    /\ now <= call.start_date.v
    /\ calendar[1].start.v - call.start_date.v >= call.duration_minutes * 60
    /\ call.end_date.v - calendar[1].end.v >= call.duration_minutes * 60

\* C3: with one timed busy event [bs, be) strictly inside the window [ws, we]
\* and now <= ws (now = ws included), get_free_slots returns exactly the two
\* slots [ws, bs) and [be, we], in that order, when each is long enough.
C3_TwoSlotsAroundOneEvent ==
    C3_Case =>
        /\ Len(out) = 2
        /\ out[1].start = call.start_date.v /\ out[1].end = calendar[1].start.v
        /\ out[2].start = calendar[1].end.v /\ out[2].end = call.end_date.v

\* C8: all-day events do not take part in the free-gap computation: the slots
\* returned are those computed from the timed events of the calendar alone.
C8_AllDayEventsIgnored ==
    SlotsReturned =>
        out = get_free_slots(TimedOnly(calendar), call.start_date,
                             call.end_date, call.duration_minutes, now)

(***************************************************************************)
(* Properties of check_time_conflict                                       *)
(***************************************************************************)
\* the call of check_time_conflict has returned with the events fetched
ConflictReturned ==
    call.op = "check_time_conflict" /\ call.pc = "returned" /\ CALENDAR_AVAILABLE

\* some timed (all-day) event of the calendar overlaps the candidate
TimedOverlap(cal, s, e) ==
    \E i \in 1 .. Len(cal) :
        IsTimed(cal[i]) /\ Overlap(s, e, cal[i].start.v, cal[i].end.v)
AllDayOverlap(cal, s, e) ==
    \E i \in 1 .. Len(cal) :
        /\ ~ IsTimed(cal[i])
        /\ Overlap(s, e, ParseEventTime(cal[i].start), ParseEventTime(cal[i].end))

\* C4: check_time_conflict reports a conflict if and only if some timed busy
\* event satisfies candidate.start < busy.end and candidate.end > busy.start;
\* a candidate equal to a busy event conflicts, one that only touches a busy
\* event at an endpoint, or lies before or after all of them, does not.
C4_ConflictIffOverlap ==
    ConflictReturned =>
        (out.has_conflict <=> TimedOverlap(calendar, call.start_dt, call.end_dt))

\* a candidate equal to one busy event and touching another conflicts
C4_Witness ==
    /\ ConflictReturned
    /\ out.has_conflict
    /\ \E i \in 1 .. Len(calendar), j \in 1 .. Len(calendar) :
          /\ IsTimed(calendar[i]) /\ IsTimed(calendar[j])
          /\ calendar[i].start.v = call.start_dt /\ calendar[i].end.v = call.end_dt
          /\ calendar[j].start.v = call.end_dt

\* C9: all-day events never cause a conflict: a candidate whose only
\* overlapping calendar events are all-day events gets has_conflict = FALSE.
C9_AllDayNeverConflicts ==
    ConflictReturned =>
        (AllDayOverlap(calendar, call.start_dt, call.end_dt)
            /\ ~ TimedOverlap(calendar, call.start_dt, call.end_dt)
         => ~ out.has_conflict)

\* the check returned no conflict for a candidate inside an all-day event
C9_Witness ==
    /\ ConflictReturned
    /\ AllDayOverlap(calendar, call.start_dt, call.end_dt)
    /\ ~ TimedOverlap(calendar, call.start_dt, call.end_dt)
    /\ ~ out.has_conflict

(***************************************************************************)
(* Properties of the create_calendar_block requests                        *)
(***************************************************************************)
\* request p checked for conflicts and the calendar then held a timed event
\* overlapping the interval it chose
SawOverlap(p) ==
    /\ req[p].check.done
    /\ TimedOverlap(req[p].check.seen, req[p].start_dt, req[p].end_dt)

\* request p ended as a rejection that carries a conflict message
RejectedForConflict(p) ==
    /\ req[p].pc = "done" /\ ~ req[p].inserted
    /\ req[p].result.success = FALSE /\ req[p].result.conflict = TRUE
    /\ \E i \in 1 .. Len(req[p].check.seen) :
          /\ IsTimed(req[p].check.seen[i])
          /\ req[p].result.message.event = req[p].check.seen[i].summary

\* C5 as claimed: when the calendar holds a timed event overlapping the chosen
\* interval the request ends as a rejection (success false, conflict true, the
\* conflict message) and no event is inserted; an event is inserted only after
\* a conflict check that found no overlap.
C5_OverlapAlwaysRejected ==
    \A p \in DOMAIN req :
        /\ (req[p].pc \in {"insert", "done"} /\ SawOverlap(p))
              => RejectedForConflict(p)
        /\ req[p].inserted => (req[p].check.done /\ ~ SawOverlap(p))

\* C5 as amended: when the fetch of the busy events succeeded and showed a
\* timed event overlapping the chosen interval, the request ends as a
\* rejection (success false, conflict true, the conflict message) and no event
\* is inserted; an event is inserted only after a conflict check that found no
\* overlap or could not fetch the busy events.
C5_FetchedOverlapRejected ==
    \A p \in DOMAIN req :
        /\ (req[p].pc \in {"insert", "done"} /\ SawOverlap(p)
               /\ req[p].check.fetched)
              => RejectedForConflict(p)
        /\ req[p].inserted
              => (req[p].check.done
                  /\ (req[p].check.fetched => ~ SawOverlap(p)))

\* a request was rejected because of an event on the calendar
C5_Witness ==
    \E p \in DOMAIN req :
        /\ SawOverlap(p) /\ req[p].check.fetched
        /\ RejectedForConflict(p)
        /\ req[p].ops = <<"list">>

\* C10: check_time_conflict is fail-open: with the calendar unavailable or the
\* fetch of the busy events failing it returns (False, None) without raising,
\* and the request goes on to the insert.
C10_FailOpen ==
    /\ \A p \in DOMAIN req :
          (req[p].check.done /\ ~ req[p].check.fetched) =>
              /\ req[p].check.result = NoConflict
              /\ \/ req[p].pc = "insert"
                 \/ req[p].pc = "done" /\ req[p].ops = <<"list", "insert">>
    /\ \A i \in GridIdx, j \in GridIdx, fetched \in BOOLEAN :
          check_time_conflict(FALSE, fetched, calendar, GridTime(i), GridTime(j))
              = NoConflict

\* a request whose conflict check could not fetch the events inserted its
\* event over a busy one
C10_Witness ==
    \E p \in DOMAIN req :
        /\ req[p].check.done /\ ~ req[p].check.fetched
        /\ SawOverlap(p)
        /\ req[p].inserted

\* request p has resolved its start time
Resolved(p) == req[p].pc \in {"check", "insert"} \/ req[p].check.done

\* C6: for every time spec that create_calendar_event accepts and every now,
\* the start of the interval that is conflict-checked and inserted is strictly
\* later than now.
C6_StartAfterNow ==
    /\ \A p \in DOMAIN req : Resolved(p) => req[p].start_dt > now
    /\ \A i \in 1 .. Len(calendar) :
          calendar[i].id # 0 => calendar[i].start.v > now

\* an explicit date-time more than a day in the past was booked
C6_Witness ==
    \E p \in DOMAIN req :
        /\ req[p].inserted
        /\ req[p].params.time_window.kind = "datetime"
        /\ req[p].params.time_window.wall + 86400 + 86400 < now
        /\ \E i \in 1 .. Len(calendar) : calendar[i].id = p

\* the fixed hour of a daily keyword, 0 for the other time specs
DailyHour(time_window) ==
    IF time_window.kind # "keyword" THEN 0
    ELSE CASE time_window.name = "today_morning" -> 9
           [] time_window.name = "today_afternoon" -> 14
           [] time_window.name = "today_evening" -> 19
           [] OTHER -> 0

\* the server's wall clock at instant t
LocalWall(t) == t + (IF TZ = "" THEN 0 - 28800 ELSE UtcOffset(TZ))

\* C7: a daily keyword resolves to its fixed hour (09:00, 14:00, 19:00) on the
\* current calendar day when that hour is still ahead of now, and to the same
\* hour on the next calendar day when it has passed.
C7_DailyKeywordRollsForward ==
    \A p \in DOMAIN req :
        (Resolved(p) /\ DailyHour(req[p].params.time_window) # 0) =>
            LET hour == DailyHour(req[p].params.time_window)
                midnight == LocalWall(now) - (LocalWall(now) % 86400)
                today == midnight + (hour * 3600)
            IN /\ today > LocalWall(now) => LocalWall(req[p].start_dt) = today
               /\ today < LocalWall(now)
                     => LocalWall(req[p].start_dt) = today + 86400

\* today_evening asked for after 19:00 was resolved to 19:00 of the next day
C7_Witness ==
    \E p \in DOMAIN req :
        /\ Resolved(p)
        /\ req[p].params.time_window = KeywordSpec("today_evening")
        /\ LocalWall(now) % 86400 > 19 * 3600
        /\ LocalWall(req[p].start_dt) =
              (LocalWall(now) - (LocalWall(now) % 86400)) + 86400 + (19 * 3600)

(***************************************************************************)
(* get_free_slots when the fetch of the busy events fails                  *)
(***************************************************************************)
\* the call of get_free_slots ended in its exception handler
SlotsFetchFailed ==
    call.op = "get_free_slots" /\ call.pc = "failed"

\* C11: when the fetch of the busy events fails inside get_free_slots the
\* result is the one computed with no busy events (the clipped window as one
\* slot when it is long enough), not a failure and not an empty list.
C11_FetchFailureEmptyBusySet ==
    SlotsFetchFailed =>
        out = get_free_slots(<< >>, call.start_date, call.end_date,
                             call.duration_minutes, now)

(***************************************************************************)
(* Properties of the start time of explicit date-times                     *)
(***************************************************************************)
\* request p asks for an explicit date-time and has resolved its start
ExplicitResolved(p) ==
    Resolved(p) /\ req[p].params.time_window.kind = "datetime"

\* the instant an explicit date-time names: its wall-clock reading in the
\* |zone when it has one, in the server's zone otherwise
NamedInstant(time_window) ==
    time_window.wall
        - (IF time_window.zone # "" THEN UtcOffset(time_window.zone)
           ELSE IF TZ = "" THEN 0 - 28800 ELSE UtcOffset(TZ))

\* C12 as claimed: an explicit date-time that names an instant earlier than
\* now, by any amount, is booked exactly one calendar day later at the same
\* time of day.
C12_PastMovedOneDay ==
    \A p \in DOMAIN req :
        (ExplicitResolved(p) /\ NamedInstant(req[p].params.time_window) < now)
            => req[p].start_dt = NamedInstant(req[p].params.time_window) + 86400

\* C12 as amended: an explicit date-time that names an instant earlier than
\* now is booked exactly one calendar day later at the same time of day when
\* that is after now (the instant is less than a day old); otherwise it is
\* booked at now + 5 minutes, truncated to the minute.
C12_PastMovedOneDayOrToNow ==
    \A p \in DOMAIN req :
        (ExplicitResolved(p) /\ NamedInstant(req[p].params.time_window) < now)
            => LET named == NamedInstant(req[p].params.time_window)
               IN /\ named + 86400 > now => req[p].start_dt = named + 86400
                  /\ named + 86400 <= now
                        => req[p].start_dt = (now + 300) - ((now + 300) % 60)

\* an event was inserted one day after the past date-time that was asked for
C12_Witness ==
    \E p \in DOMAIN req :
        /\ ExplicitResolved(p) /\ req[p].inserted
        /\ NamedInstant(req[p].params.time_window) < now
        /\ \E i \in 1 .. Len(calendar) :
              /\ calendar[i].id = p
              /\ calendar[i].start.v
                    = NamedInstant(req[p].params.time_window) + 86400

\* C13: the now keyword resolves to the next 5-minute clock boundary after now
\* with a 5-minute floor: for every now the resolved start is on a 5-minute
\* boundary and is at least 5 minutes after now.
C13_NowFiveMinuteFloor ==
    \A p \in DOMAIN req :
        (Resolved(p) /\ req[p].params.time_window = KeywordSpec("now")) =>
            /\ LocalWall(req[p].start_dt) % 300 = 0
            /\ req[p].start_dt - now >= 300

\* the UTC offset, in seconds, that an embedded offset text denotes
OffsetSeconds(offset) ==
    CASE offset = "-08:00" -> 0 - 28800
      [] offset = "-05:00" -> 0 - 18000
      [] OTHER -> 0

\* the instant an explicit date-time names under the priority rule of C14: the
\* |zone first, then the embedded offset, then the server's zone
InstantByPriority(time_window) ==
    time_window.wall
        - (IF time_window.zone # "" THEN UtcOffset(time_window.zone)
           ELSE IF time_window.offset # "none"
                THEN OffsetSeconds(time_window.offset)
           ELSE IF TZ = "" THEN 0 - 28800 ELSE UtcOffset(TZ))

\* C14: the timezone used to resolve an explicit date-time follows one
\* priority rule: the |zone suffix when present (any embedded offset is then
\* ignored), otherwise the embedded UTC offset when present, and the server's
\* timezone only when the spec carries no timezone information; so a date-time
\* that names a future instant under this rule is booked at that instant.
C14_ZonePriority ==
    \A p \in DOMAIN req :
        (ExplicitResolved(p) /\ InstantByPriority(req[p].params.time_window) > now)
            => req[p].start_dt = InstantByPriority(req[p].params.time_window)

(***************************************************************************)
(* Properties of the time specs that are refused                           *)
(***************************************************************************)
\* the text is no keyword and no date-time of the grammar: some other text, or
\* a date-time followed by extra characters
Malformed(time_window) ==
    \/ time_window.kind = "text"
    \/ time_window.kind = "datetime" /\ time_window.extra

\* request p ended with an error before any call to the calendar
RefusedUnparsed(p) ==
    /\ req[p].pc = "done"
    /\ req[p].result.success = FALSE /\ req[p].result.conflict = FALSE
    /\ req[p].ops = << >> /\ ~ req[p].inserted

\* C15: a time spec that is neither one of the eight keywords nor a date-time
\* of the accepted grammar (a date-time followed by extra characters included)
\* is rejected: the request ends with an error result, no conflict check is
\* run and no event is inserted.
C15_MalformedRejected ==
    \A p \in DOMAIN req :
        (Malformed(req[p].params.time_window) /\ req[p].pc # "start")
            => RefusedUnparsed(p)

(***************************************************************************)
(* Properties of a request without a time_window                           *)
(***************************************************************************)
\* request p came to its end and no call to the calendar service failed
EndedWithoutServiceFailure(p) ==
    /\ req[p].pc = "done"
    /\ req[p].result # Failed("exception")

\* C16: when a create_calendar_block action is executed with time_window not
\* provided, the backend itself searches the 7 days that start one hour from
\* now for free slots, picks one and books it: on a calendar with free time,
\* and with no calendar call failing, the request ends with an event inserted.
C16_UnsetSearchedAndBooked ==
    \A p \in DOMAIN req :
        (/\ req[p].params.time_window = Unset
         /\ ValidParams(req[p].params) /\ CALENDAR_AVAILABLE
         /\ EndedWithoutServiceFailure(p))
            => (req[p].inserted /\ req[p].result.success)

(***************************************************************************)
(* Properties of generate_agent_suggestions                                *)
(***************************************************************************)
\* the call of generate_agent_suggestions has come back with its response
SuggestionsReturned ==
    call.op = "generate_agent_suggestions" /\ call.pc # "called"

\* the end of the search made at now_: 23:59:59 Pacific, 7 days on
SearchEnd(now_) ==
    ((now_ - 28800) - ((now_ - 28800) % 86400)) + (7 * 86400) + 86399 + 28800

\* some interval of duration_minutes minutes inside [from, to] overlaps no
\* timed event of cal; a free stretch begins at from or at the end of an event
FreeGapExists(cal, from, to, duration_minutes) ==
    \E s \in {from} \cup { cal[i].end.v : i \in { j \in DOMAIN cal : IsTimed(cal[j]) } } :
        /\ s >= from /\ s + (duration_minutes * 60) <= to
        /\ \A i \in DOMAIN cal :
              IsTimed(cal[i]) =>
                  ~ Overlap(s, s + (duration_minutes * 60),
                            cal[i].start.v, cal[i].end.v)

\* the calendar has no free time of the length that suggestion i asks for in
\* the 7 days that start one hour from now
NoAvailability(i) ==
    /\ call.actions_data[i].type = "create_calendar_block"
    /\ ~ FreeGapExists(calendar, now + 3600, SearchEnd(now),
                       call.actions_data[i].params.duration_minutes)

\* the response holds the calendar suggestion made from actions_data[i]
InResponse(i) ==
    \E k \in DOMAIN out :
        out[k].type = "create_calendar_block" /\ out[k].message = i

\* C17: when no free slot of at least the requested duration exists in the
\* 7-day search window, generate_agent_suggestions raises nothing, books
\* nothing and returns a response without that calendar action.
C17_NoAvailabilitySkipsAction ==
    SuggestionsReturned =>
        /\ out # << >>
        /\ \A k \in DOMAIN call.ops : call.ops[k] # "insert"
        /\ \A i \in DOMAIN call.actions_data : NoAvailability(i) => ~ InResponse(i)

\* the calendar was read and has room for 30 minutes but not for the 60 that
\* the only suggestion asks for: the response is the fallback suggestion
C17_Witness ==
    /\ SuggestionsReturned /\ call.location /\ CALENDAR_AVAILABLE
    /\ Len(call.actions_data) = 1 /\ call.fetched[1]
    /\ NoAvailability(1)
    /\ FreeGapExists(calendar, now + 3600, SearchEnd(now), 30)
    /\ out = << FallbackAction(call.action_stats) >>

(***************************************************************************)
(* Properties of the outcomes of get_free_slots                            *)
(***************************************************************************)
\* what get_free_slots returns when it read the calendar and found no slot
NoSlotOutcome == << >>

\* the call ended without the busy events: the fetch failed or the calendar
\* is not available
EndedWithoutEvents ==
    /\ call.op = "get_free_slots"
    /\ \/ call.pc = "failed"
       \/ call.pc = "returned" /\ ~ CALENDAR_AVAILABLE

\* C18: the outcome produced when the fetch of the busy events failed is
\* distinguishable from the outcome produced when the calendar was read and
\* holds no qualifying free slot.
C18_FetchErrorDistinct ==
    EndedWithoutEvents => out # NoSlotOutcome

(***************************************************************************)
(* Properties of analyze_preferred_times                                   *)
(***************************************************************************)
\* the call of analyze_preferred_times has returned the profile in out
ProfileReturned ==
    call.op = "analyze_preferred_times" /\ call.pc = "returned"

\* the hours of a sequence by decreasing count, hours of equal count by
\* increasing value, cut to n
TopHoursSmallestFirst(hours, n) ==
    LET distinct == { hours[i] : i \in DOMAIN hours }
        Count(h) == Cardinality({ i \in DOMAIN hours : hours[i] = h })
        Rank(h) == 1 + Cardinality({ g \in distinct :
                                       \/ Count(g) > Count(h)
                                       \/ Count(g) = Count(h) /\ g < h })
        m == IF Cardinality(distinct) < n THEN Cardinality(distinct) ELSE n
    IN [ k \in 1 .. m |-> CHOOSE h \in distinct : Rank(h) = k ]

\* C19: preferred_hours are the (up to) 3 most frequent hours among the
\* confirmed create_calendar_block actions, most frequent first, every tie in
\* frequency broken by the smaller hour, so that the result does not depend
\* on the order of the history.
C19_TiesBySmallerHour ==
    ProfileReturned =>
        out.preferred_hours
            = TopHoursSmallestFirst(ScheduledHours(call.recent_actions), 3)

\* an hour can be read from the time_window of the action: an ISO date-time
\* on its own, or a text naming the morning, the afternoon or the evening
HourReadable(action) ==
    \/ /\ action.time_window.kind = "datetime"
       /\ action.time_window.zone = "" /\ ~ action.time_window.extra
    \/ /\ action.time_window.kind = "keyword"
       /\ action.time_window.name \in
             {"today_morning", "today_afternoon", "today_evening",
              "tomorrow_morning", "tomorrow_afternoon"}

\* the action is a sample: a confirmed create_calendar_block with an hour
IsSample(action) ==
    /\ action.actionType = "create_calendar_block"
    /\ action.outcome = "confirmed"
    /\ HourReadable(action)

\* the hour of a sample
SampleHour(action) ==
    IF action.time_window.kind = "datetime"
    THEN (action.time_window.wall % 86400) \div 3600
    ELSE CASE action.time_window.name \in {"today_morning", "tomorrow_morning"} -> 9
           [] action.time_window.name = "today_evening" -> 19
           [] OTHER -> 14

\* the hours of the samples of a history, in its order
SampleHours(recent_actions) ==
    LET samples == SelectSeq(recent_actions, IsSample)
    IN [ i \in DOMAIN samples |-> SampleHour(samples[i]) ]

\* C20: the samples are the actions with actionType create_calendar_block and
\* outcome confirmed from which an hour can be extracted, and only those:
\* has_pattern is true if and only if there are at least 2 samples, every
\* preferred hour is the hour of a sample, with zero samples the profile is
\* empty (no preferred hours, no time of day, has_pattern false), and the
\* sample hours 9, 9, 14 give top preferred hour 9, has_pattern true and time
\* of day morning.
C20_SamplesAndPattern ==
    ProfileReturned =>
        LET hours == SampleHours(call.recent_actions)
        IN /\ out.has_pattern <=> Len(hours) >= 2
           /\ \A k \in DOMAIN out.preferred_hours :
                 \E i \in DOMAIN hours : hours[i] = out.preferred_hours[k]
           /\ Len(hours) = 0 => out = NoPreferences
           /\ Len(hours) > 0 => out.preferred_hours # << >>
           /\ hours = <<9, 9, 14>> =>
                 /\ out.preferred_hours[1] = 9
                 /\ out.has_pattern
                 /\ out.preferred_time_of_day = "morning"

\* the samples 9, 9, 14 among an action that is no sample gave the profile
C20_Witness ==
    /\ ProfileReturned
    /\ Len(call.recent_actions) = 4
    /\ SampleHours(call.recent_actions) = <<9, 9, 14>>
    /\ out = [preferred_hours |-> <<9, 14>>,
              preferred_time_of_day |-> "morning", has_pattern |-> TRUE]

(***************************************************************************)
(* Properties of select_best_free_slot                                     *)
(***************************************************************************)
SlotSelected == call.op = "select_best_free_slot" /\ call.pc = "returned"

\* the slots of the list that last at least the required duration
LongEnough ==
    { i \in DOMAIN call.free_slots :
        call.free_slots[i].duration_minutes >= call.duration_minutes }

\* the hour of the day, in Pacific time, at which a slot starts
StartHour(slot) == (Wall(slot.start, Pacific) % Days(1)) \div Hours(1)

\* the distance from the start hour of a slot to the nearest preferred hour
Nearest(slot) ==
    LET hours == call.preferred_times.preferred_hours
        dist(k) == IF StartHour(slot) >= hours[k]
                   THEN StartHour(slot) - hours[k]
                   ELSE hours[k] - StartHour(slot)
    IN CHOOSE d \in { dist(k) : k \in DOMAIN hours } :
          \A k \in DOMAIN hours : d <= dist(k)

\* C21: with a profile that has a pattern, the slot returned is one of the
\* slots of at least the required duration, its score 24 - (distance to the
\* nearest preferred hour) is the highest among them, and no slot of the same
\* score starts earlier.
C21_BestScoreEarliestFirst ==
    (SlotSelected /\ call.preferred_times.has_pattern /\ LongEnough # {}) =>
        /\ Len(out) = 1
        /\ \E i \in LongEnough : out[1] = call.free_slots[i]
        /\ \A i \in LongEnough :
              /\ 24 - Nearest(out[1]) >= 24 - Nearest(call.free_slots[i])
              /\ Nearest(out[1]) = Nearest(call.free_slots[i]) =>
                    out[1].start <= call.free_slots[i].start

\* a later slot beats an earlier one by its score, and two slots tie for the
\* highest score
C21_Witness ==
    /\ SlotSelected /\ call.preferred_times.has_pattern
    /\ \E i, j \in LongEnough :
          /\ i < j /\ j < Len(call.free_slots)
          /\ Nearest(call.free_slots[i]) > Nearest(call.free_slots[j])
          /\ out[1] = call.free_slots[j]
          /\ Nearest(call.free_slots[j + 1]) = Nearest(call.free_slots[j])
          /\ j + 1 \in LongEnough

\* C22: None is returned when no slot of the list lasts the required
\* duration (an empty list included); a profile without a pattern gives the
\* first slot in time that lasts the required duration; and a slot returned
\* is always one of the list.
C22_NoneOrFirstSuitable ==
    SlotSelected =>
        /\ LongEnough = {} => out = << >>
        /\ (LongEnough # {} /\ ~call.preferred_times.has_pattern) =>
              /\ Len(out) = 1
              /\ \E i \in LongEnough :
                    /\ out[1] = call.free_slots[i]
                    /\ \A j \in LongEnough :
                          call.free_slots[i].start <= call.free_slots[j].start
        /\ out # << >> =>
              \E i \in DOMAIN call.free_slots : out[1] = call.free_slots[i]

\* None for a list whose slots are all too short
C22_Witness ==
    /\ SlotSelected /\ call.free_slots # << >> /\ LongEnough = {}
    /\ out = << >>

(***************************************************************************)
(* Properties of _execute_calendar_block                                   *)
(***************************************************************************)
\* the parameters the schema of create_calendar_block refuses
OutsideSchema(params) ==
    \/ params.duration_minutes < 5
    \/ params.duration_minutes > 240
    \/ params.purpose = "missing"

\* C23: a create_calendar_block whose duration is outside 5..240 or whose
\* purpose is missing ends with success = false and the invalid-parameters
\* message, and its request makes no calendar call: no fetch for the conflict
\* check and no insert.
C23_InvalidParamsNoCalendarCall ==
    \A p \in DOMAIN req :
        (req[p].pc # "start" /\ OutsideSchema(req[p].params)) =>
            /\ req[p].pc = "done"
            /\ req[p].result.success = FALSE
            /\ req[p].result.message = "Invalid calendar block parameters"
            /\ req[p].ops = << >>
            /\ ~ req[p].check.done
            /\ ~ req[p].inserted

\* a request of 241 minutes was refused while the calendar was available
C23_Witness ==
    /\ CALENDAR_AVAILABLE
    /\ \E p \in DOMAIN req :
          /\ req[p].pc = "done" /\ req[p].params.duration_minutes = 241
          /\ req[p].result = InvalidParameters
    /\ \E p \in DOMAIN req :
          /\ req[p].pc = "done" /\ req[p].params.purpose = "missing"
          /\ req[p].result = InvalidParameters

(***************************************************************************)
(* get_free_slots on an empty calendar                                     *)
(***************************************************************************)
\* the window asked for, before any clipping
WindowStart ==
    IF call.start_date.kind = "iso" THEN call.start_date.v
    ELSE ParseStartDate(call.start_date, now)
WindowEnd == ParseEndDate(call.end_date, now)

\* C24: with no busy event, get_free_slots returns exactly one slot, from
\* max(window start, now) to the window end, whenever that interval lasts at
\* least duration_minutes, whether the window starts after now or not.
C24_EmptyCalendarOneSlot ==
    (SlotsReturned /\ CALENDAR_AVAILABLE /\ calendar = << >>
       /\ WindowEnd - Max(WindowStart, now) >= Minutes(call.duration_minutes)) =>
        /\ Len(out) = 1
        /\ out[1].start = Max(WindowStart, now)
        /\ out[1].end = WindowEnd

(***************************************************************************)
(* Two requests for overlapping intervals                                  *)
(***************************************************************************)
\* the intervals chosen by requests p and q overlap
SameInterval(p, q) ==
    Overlap(req[p].start_dt, req[p].end_dt, req[q].start_dt, req[q].end_dt)

\* request q ran its conflict check after request p had inserted its event
CheckedAfterInsert(p, q) ==
    /\ p # q /\ req[p].inserted /\ req[q].check.done
    /\ \E i \in 1 .. Len(req[q].check.seen) : req[q].check.seen[i].id = p

\* both requests passed a conflict check that fetched a calendar free in
\* their interval, and both inserted their event
DoubleBooked(p, q) ==
    /\ p # q /\ SameInterval(p, q)
    /\ req[p].inserted /\ req[q].inserted
    /\ req[p].check.fetched /\ ~ SawOverlap(p)
    /\ req[q].check.fetched /\ ~ SawOverlap(q)

\* C25 as claimed: a request for an interval that overlaps the interval of a
\* request that has already inserted its event is rejected with a conflict
\* (the double booking of two requests that run at the same time is the
\* state C25_Witness).
C25_SecondOfTwoRejected ==
    \A p, q \in DOMAIN req :
        (CheckedAfterInsert(p, q) /\ SameInterval(p, q)
           /\ req[q].pc \in {"insert", "done"}) => RejectedForConflict(q)

\* C25 as amended: the same, when the second request's fetch of the busy
\* events succeeds.
C25_SecondOfTwoRejectedWhenFetched ==
    \A p, q \in DOMAIN req :
        (CheckedAfterInsert(p, q) /\ SameInterval(p, q)
           /\ req[q].check.fetched
           /\ req[q].pc \in {"insert", "done"}) => RejectedForConflict(q)

\* two requests that ran at the same time are both booked in one interval
C25_Witness ==
    \E p, q \in DOMAIN req :
        /\ DoubleBooked(p, q)
        /\ req[p].ops = <<"list", "insert">>
        /\ req[q].ops = <<"list", "insert">>

\* one request after the other: the second was rejected for the event of the
\* first
C25_SequentialWitness ==
    \E p, q \in DOMAIN req :
        /\ CheckedAfterInsert(p, q) /\ SameInterval(p, q)
        /\ req[q].check.fetched /\ RejectedForConflict(q)
        /\ Len(req[q].check.seen) = 1

(***************************************************************************)
(* The order of the steps of one request                                   *)
(***************************************************************************)
\* the start and end of request p are the ones its time spec resolves to at
\* the time the request read the clock
TimeResolved(p) ==
    LET resolved == ResolveStart(req[p].params.time_window, req[p].now, TZ)
    IN /\ resolved.ok
       /\ req[p].start_dt = resolved.start_dt
       /\ req[p].end_dt
             = resolved.start_dt + Minutes(req[p].params.duration_minutes)

\* C26: the calendar operations of one request are the fetch of the busy
\* events for the conflict check and then, with no calendar operation in
\* between, the insert; the start and end are resolved before the fetch, and
\* the event inserted is the interval that was checked.
C26_CheckThenInsert ==
    \A p \in DOMAIN req :
        /\ req[p].ops \in { << >>, <<"list">>, <<"list", "insert">> }
        /\ req[p].pc \in {"check", "insert"} => TimeResolved(p)
        /\ req[p].ops # << >> => (req[p].check.done /\ TimeResolved(p))
        /\ req[p].inserted =>
              \E i \in 1 .. Len(calendar) :
                  /\ calendar[i].id = p
                  /\ calendar[i] = EventBody(p, req[p].params.purpose,
                                             req[p].start_dt, req[p].end_dt)

\* a request fetched the busy events, found no conflict and inserted, while
\* the other request had not yet checked
C26_Witness ==
    \E p, q \in DOMAIN req :
        /\ p # q
        /\ req[p].inserted /\ req[p].ops = <<"list", "insert">>
        /\ req[p].check.fetched /\ Len(req[p].check.seen) = 1
        /\ req[q].pc = "check"

(***************************************************************************)
(* The MCP tool against create_calendar_event                              *)
(***************************************************************************)
McpReturned == call.op = "calendar_create_event" /\ call.pc = "returned"

\* the calendar as it was when the tool was called
CalendarBefore == SelectSeq(calendar, LAMBDA e : e.summary # call.title)

\* create_calendar_event, given the same calendar, time spec and duration,
\* with its calendar calls succeeding, inserts the event
ServiceInserts ==
    LET resolved == ResolveStart(call.start_time, now, TZ)
    IN /\ CALENDAR_AVAILABLE
       /\ resolved.ok
       /\ ~ check_time_conflict(TRUE, TRUE, CalendarBefore, resolved.start_dt,
              resolved.start_dt + Minutes(call.duration_minutes)).has_conflict

\* C27: the MCP tool calendar_create_event inserts exactly when
\* create_calendar_event does for the same calendar, time spec and duration,
\* and it never inserts an event that overlaps a timed event of the calendar.
C27_McpChecksConflicts ==
    McpReturned =>
        /\ out.inserted <=> ServiceInserts
        /\ out.inserted =>
              ~ TimedOverlap(CalendarBefore, out.start, out.end)

(***************************************************************************)
(* The response of generate_agent_suggestions                              *)
(***************************************************************************)
\* entry i of the model's answer cannot become an action: it is not a valid
\* action, or it is a calendar block and the calendar is unavailable, could
\* not be read, or has no room for it
Unusable(i) ==
    \/ call.actions_data[i].type = "unknown"
    \/ /\ call.actions_data[i].type = "create_calendar_block"
       /\ (~ CALENDAR_AVAILABLE \/ ~ call.fetched[i] \/ NoAvailability(i))

\* the suggestion is one of the two fallback suggestions of the code
IsFallback(action) ==
    IF action.type = "create_journal_entry"
    THEN action.params.prompt_template = "check in"
    ELSE /\ action.type = "suggest_retake_quiz"
         /\ action.params.reason \in {"check-ins", "get recommendations"}

\* C28: generate_agent_suggestions always ends with a response of at least
\* one action, each of a valid type; when the model's call fails, or its
\* answer is empty, or every entry of the answer is invalid or a calendar
\* block that is skipped (calendar unavailable, fetch failed, no room), the
\* response is a single fallback suggestion, a journal entry or a quiz.
C28_AlwaysOneAction ==
    /\ call.op = "generate_agent_suggestions" =>
          call.pc \in {"called", "returned", "fallback"}
    /\ SuggestionsReturned =>
          /\ Len(out) >= 1
          /\ \A k \in DOMAIN out :
                out[k].type \in {"create_calendar_block", "create_journal_entry",
                                 "suggest_retake_quiz"}
          /\ (call.pc = "fallback"
                \/ \A i \in DOMAIN call.actions_data : Unusable(i)) =>
                /\ Len(out) = 1
                /\ IsFallback(out[1])

\* the model answered with two calendar blocks; the busy events could not be
\* fetched for one and the calendar has no room for the other; the response
\* is the fallback journal entry
C28_Witness ==
    /\ SuggestionsReturned /\ call.pc = "returned"
    /\ Len(call.actions_data) = 2
    /\ ~ call.fetched[1] /\ call.fetched[2] /\ NoAvailability(2)
    /\ FreeGapExists(calendar, now + Hours(1), SearchEnd(now), 30)
    /\ Len(out) = 1 /\ out[1].type = "create_journal_entry"

(***************************************************************************)
(* The time_window of the calendar suggestions                             *)
(***************************************************************************)
\* the free slots get_free_slots returns for the 7 days that start one hour
\* from now, which begin at least one hour from now and last at least
\* duration_minutes
SlotsOffered(duration_minutes) ==
    LET free_slots == get_free_slots(calendar, Iso(now + Hours(1)), DaysAhead(7),
                                     duration_minutes, now)
    IN { free_slots[n] : n \in { m \in DOMAIN free_slots :
            /\ free_slots[m].start >= now + Hours(1)
            /\ free_slots[m].end - free_slots[m].start
                  >= Minutes(duration_minutes) } }

\* the slot lookup made for entry i of the answer failed
LookupFailed(i) == ~ CALENDAR_AVAILABLE \/ ~ call.fetched[i]

\* C29: every create_calendar_block of the response comes from a calendar
\* block of the model's answer and carries as time_window the start (ISO text
\* with the Pacific offset) of a free slot returned by get_free_slots that
\* begins at least one hour after now and lasts at least the action's
\* duration, never the time_window the model gave; and the calendar block is
\* left out when the lookup fails or there is no such slot.
C29_TimeWindowIsFreeSlot ==
    (SuggestionsReturned /\ call.pc = "returned") =>
        /\ \A k \in DOMAIN out :
              out[k].type = "create_calendar_block" =>
                  /\ out[k].message \in DOMAIN call.actions_data
                  /\ call.actions_data[out[k].message].type = "create_calendar_block"
                  /\ ~ LookupFailed(out[k].message)
                  /\ \E slot \in SlotsOffered(out[k].params.duration_minutes) :
                        out[k].params.time_window
                          = DateTimeSpec(Wall(slot.start, Pacific), "-08:00", "")
        /\ \A i \in DOMAIN call.actions_data :
              (call.actions_data[i].type = "create_calendar_block"
                 /\ (LookupFailed(i)
                       \/ SlotsOffered(call.actions_data[i].params.duration_minutes)
                            = {})) => ~ InResponse(i)

\* the model gave the time_window "now"; the response carries the start of a
\* free slot that is not the first one offered
C29_Witness ==
    /\ SuggestionsReturned /\ call.pc = "returned"
    /\ \E k \in DOMAIN out :
          /\ out[k].type = "create_calendar_block"
          /\ call.actions_data[out[k].message].params.time_window
                = KeywordSpec("now")
          /\ \E s1, s2 \in SlotsOffered(out[k].params.duration_minutes) :
                /\ s1.start < s2.start
                /\ out[k].params.time_window
                     = DateTimeSpec(Wall(s2.start, Pacific), "-08:00", "")

(***************************************************************************)
(* The round trip from a suggestion to its booking                         *)
(***************************************************************************)
\* the instant that the time_window of request p names: an ISO date-time
\* written with the Pacific offset
SuggestedInstant(p) == Instant(req[p].params.time_window.wall, Pacific)

\* the events the calendar held before request p inserted its own
EventsBefore(p) == SelectSeq(calendar, LAMBDA e : e.id # p)

\* the free slots get_free_slots produced at the time of the suggestion
SlotsSuggested(p) ==
    LET free_slots == get_free_slots(EventsBefore(p),
                                     Iso(call.suggested_at + Hours(1)),
                                     DaysAhead(7),
                                     req[p].params.duration_minutes,
                                     call.suggested_at)
    IN { free_slots[n] : n \in DOMAIN free_slots }

\* C30: a calendar suggestion executed before its time_window has passed is
\* booked at the instant at which the free slot produced by get_free_slots
\* starts, whatever the server's zone TZ is, and the booked interval lies
\* inside that slot.
C30_BookedAtSlotStart ==
    \A p \in DOMAIN req :
        (call.op = "generate_agent_suggestions" /\ call.pc = "confirmed"
           /\ req[p].inserted /\ req[p].now < SuggestedInstant(p)) =>
            /\ req[p].start_dt = SuggestedInstant(p)
            /\ \E slot \in SlotsSuggested(p) :
                  /\ slot.start = req[p].start_dt
                  /\ req[p].end_dt <= slot.end

====
